---- MODULE Spec2Model ----
(***************************************************************************)
(* Access-control and token-issuance core of the family genealogy          *)
(* platform: the token service (auth/google.py), the access store          *)
(* (db/models.py) and the HTTP journeys (main.py).                         *)
(*                                                                         *)
(* Strings are sequences of one-character strings, so that lower(),        *)
(* strip(), split() and startswith() are computed as Python computes them. *)
(* Python's None is the empty tuple; an optional integer n is <<n>>.       *)
(* Time is counted in ticks of half a second; a JWT NumericDate is a whole  *)
(* number of seconds.  Table columns that no operation reads (created_at,  *)
(* granted_at, consented_at, description, picture_url, ip, user agent)     *)
(* are not carried.                                                        *)
(***************************************************************************)
EXTENDS Integers, Sequences, FiniteSets, Bags, TLC

\* ------------------------------------------------------------------ bounds
MaxUsers == 2
MaxGrants == 2
MaxCodes == 2
MaxConsents == 2
MaxAdvances == 1
MaxLogins == 2
MaxUses == 2
NumThreads == 3

\* ------------------------------------------------------------- Python bits
None == <<>>
Some(x) == <<x>>
IsNone(o) == o = None
Val(o) == o[1]
\* Python truthiness of an Optional[int]: None and 0 are both falsy
Truthy(o) == o # None /\ Val(o) # 0

RECURSIVE SeqRange(_)
SeqRange(s) == IF s = <<>> THEN {} ELSE {Head(s)} \cup SeqRange(Tail(s))

SeqMap(Op(_), s) == [i \in 1..Len(s) |-> Op(s[i])]

\* str.lower() on the characters the model uses
LowerCaseOf == ("B" :> "b") @@ ("S" :> "s") @@ ("X" :> "x")
LowerChar(c) == IF c \in DOMAIN LowerCaseOf THEN LowerCaseOf[c] ELSE c
Lower(s) == SeqMap(LowerChar, s)

\* str.strip(): drop leading and trailing whitespace
RECURSIVE LStrip(_)
LStrip(s) == IF s # <<>> /\ Head(s) = " " THEN LStrip(Tail(s)) ELSE s
RECURSIVE RStrip(_)
RStrip(s) ==
    IF s # <<>> /\ s[Len(s)] = " " THEN RStrip(SubSeq(s, 1, Len(s) - 1)) ELSE s
Strip(s) == RStrip(LStrip(s))

StartsWith(s, p) == Len(s) >= Len(p) /\ SubSeq(s, 1, Len(p)) = p

\* index of the first ":" of s, 0 when there is none
RECURSIVE ColonAt(_, _)
ColonAt(s, i) ==
    IF i > Len(s) THEN 0 ELSE IF s[i] = ":" THEN i ELSE ColonAt(s, i + 1)
HasColon(s) == ColonAt(s, 1) # 0
\* s.split(":", 1) of a string that holds a colon
BeforeColon(s) == SubSeq(s, 1, ColonAt(s, 1) - 1)
AfterColon(s) == SubSeq(s, ColonAt(s, 1) + 1, Len(s))
\* s.split(":", 2): one, two or three parts
Split2(s) ==
    IF ~HasColon(s) THEN <<s>>
    ELSE IF ~HasColon(AfterColon(s)) THEN <<BeforeColon(s), AfterColon(s)>>
    ELSE <<BeforeColon(s), BeforeColon(AfterColon(s)), AfterColon(AfterColon(s))>>

\* ------------------------------------------------------------ string data
bull == <<"b", "u", "l", "l">>
north == <<"n", "o", "r", "t", "h">>
signup == <<"s", "i", "g", "n", "u", "p">>
colon == <<":">>
alice == <<"a", "@", "x">>
bob == <<"b", "@", "x">>
Emails == {alice, bob}
klingenberg == <<"k", "l", "i", "n", "g", "e", "n", "b", "e", "r", "g">>
herrman == <<"h", "e", "r", "r", "m", "a", "n">>
\* the default of FAMILY_NAMES, split on "," and stripped
get_valid_families == <<bull, north, klingenberg, herrman>>
is_valid_family(family_name) == family_name \in SeqRange(get_valid_families)


\* ------------------------------------------------------------------ state
VARIABLES
    users,      \* table users, in id order (id = position)
    grants,     \* table family_access, in id order
    codes,      \* table family_invitation_codes, in id order
    consents,   \* table user_consent, in id order
    now,        \* the clock, in ticks
    advances,   \* how often the clock was advanced
    cookie,     \* the browser's authorization cookie: None or a token
    link,       \* the time-boxed token last handed out: None or a token
    pending,    \* the state parameter of the last authorization URL, or None
    resp,       \* the last response
    pc,         \* per thread: where it is inside use_invitation_code
    snap,       \* per thread: its arguments and the row its session loaded
    service,    \* the process: its environment, and the module-level google_auth
    ses,        \* the FamilyEmailService singleton and the SES settings around it
    logins      \* the log: whether logins are kept, and the bag of tokens that
                \* were accepted, one copy per login; whether issue times are
                \* kept, and the (token, time of issue) pairs

vars == <<users, grants, codes, consents, now, advances, cookie, link, pending,
          resp, pc, snap, logins, service, ses>>
db == <<users, grants, codes, consents>>

\* ---------------------------------------------------------- token service
TicksPerSecond == 2
SessionHours == 24
VerificationMinutes == 30
Hours(h) == h * 3600 * TicksPerSecond
Minutes(m) == m * 60 * TicksPerSecond
Days(d) == d * 24 * 3600 * TicksPerSecond

\* os.getenv of a name that is not set returns None: a value that is no
\* string and is false
NotSet == "None"
Falsy(value) == value \in {NotSet, ""}
\* the environment of a deployed process
Configured ==
    [GOOGLE_CLIENT_ID |-> "client-id", GOOGLE_CLIENT_SECRET |-> "client-secret",
     JWT_SECRET |-> "JWT_SECRET"]

\* a constructor that does not look at the signing secret
GoogleAuthService_any_secret(environ) ==
    IF Falsy(environ.GOOGLE_CLIENT_ID) \/ Falsy(environ.GOOGLE_CLIENT_SECRET)
    THEN [state |-> "ValueError", args |-> "Google OAuth credentials not configured"]
    ELSE [state |-> "constructed", args |-> "", jwt_secret |-> environ.JWT_SECRET]

\* GoogleAuthService(): the instance, or the ValueError it raises
GoogleAuthService(environ) ==
    IF Falsy(environ.GOOGLE_CLIENT_ID) \/ Falsy(environ.GOOGLE_CLIENT_SECRET)
    THEN [state |-> "ValueError", args |-> "Google OAuth credentials not configured"]
    ELSE IF Falsy(environ.JWT_SECRET)
    THEN [state |-> "ValueError", args |-> "JWT secret not configured"]
    ELSE [state |-> "constructed", args |-> "", jwt_secret |-> environ.JWT_SECRET]

\* the module auth.google before it is imported
NotImported == [state |-> "not imported", args |-> ""]
\* a process that started in the deployed environment
Running == [environ |-> Configured, google_auth |-> GoogleAuthService(Configured)]
\* get_google_auth() is there once the import has succeeded
Constructed == service.google_auth.state = "constructed"

\* self.jwt_secret of the instance, and a key that is not the configured one
jwt_secret == service.google_auth.jwt_secret
OtherKey == "other-key"

issuer == "family-genealogy-platform"
email_verification == "email_verification"

\* In a payload user_id is JSON null or a number: None or <<n>>.
\* str(user_id) for the ids the model uses
Digits == <<"0", "1", "2", "3", "4", "5", "6", "7", "8", "9">>
Str(n) == IF n < 10 THEN <<Digits[n + 1]>> ELSE <<Digits[(n \div 10) + 1], Digits[(n % 10) + 1]>>

\* create_jwt_token called with expires_hours=48
create_jwt_token_two_days(user_id, email, families, t) ==
    [sig |-> "JWT_SECRET",
     payload |-> [user_id |-> <<user_id>>,
                  email |-> email,
                  families |-> families,
                  iat |-> t \div TicksPerSecond,
                  exp |-> (t + Hours(2 * SessionHours)) \div TicksPerSecond,
                  iss |-> "family-genealogy-platform",
                  sub |-> Str(user_id)]]

\* a datetime as a JWT NumericDate: whole seconds since the epoch
NumericDate(t) == t \div TicksPerSecond

\* jwt.encode(payload, key, "HS256"): datetimes become NumericDates, the
\* signature binds the payload to the key
\* an encoder that writes iat and exp in clock ticks
jwt_encode_ticks(payload, key) == [sig |-> key, payload |-> payload]

jwt_encode(payload, key) ==
    [sig |-> key,
     payload |-> [k \in DOMAIN payload |->
                    IF k \in {"iat", "exp"} THEN NumericDate(payload[k]) ELSE payload[k]]]

\* a string that is no JWT at all
Malformed == [malformed |-> TRUE]

\* jwt.decode with options={"verify_exp": False}
jwt_decode_exp_unverified(token, key, t) ==
    IF "sig" \notin DOMAIN token THEN [err |-> "InvalidTokenError", payload |-> None]
    ELSE IF token.sig # key THEN [err |-> "InvalidTokenError", payload |-> None]
    ELSE [err |-> "", payload |-> token.payload]

\* jwt.decode with options={"verify_signature": False}
jwt_decode_signature_unverified(token, key, t) ==
    IF "sig" \notin DOMAIN token THEN [err |-> "InvalidTokenError", payload |-> None]
    ELSE IF "exp" \in DOMAIN token.payload /\ token.payload.exp * TicksPerSecond <= t
        THEN [err |-> "ExpiredSignatureError", payload |-> None]
    ELSE [err |-> "", payload |-> token.payload]

\* jwt.decode(token, key, algorithms=["HS256"]): the signature is verified
\* first, then exp against the current time
jwt_decode(token, key, t) ==
    IF "sig" \notin DOMAIN token THEN [err |-> "InvalidTokenError", payload |-> None]
    ELSE IF token.sig # key THEN [err |-> "InvalidTokenError", payload |-> None]
    ELSE IF "exp" \in DOMAIN token.payload /\ token.payload.exp * TicksPerSecond <= t
        THEN [err |-> "ExpiredSignatureError", payload |-> None]
    ELSE [err |-> "", payload |-> token.payload]

create_jwt_token(user_id, email, families, t) ==
    jwt_encode([user_id |-> Some(user_id),
                email |-> email,
                families |-> IF families = None THEN <<>> ELSE families,
                iat |-> t,
                exp |-> t + Hours(SessionHours),
                iss |-> issuer,
                sub |-> Str(user_id)], jwt_secret)

verify_jwt_token(token, t) ==
    LET d == jwt_decode(token, jwt_secret, t) IN
    IF d.err # "" THEN None
    ELSE IF "exp" \in DOMAIN d.payload /\ d.payload.exp # 0
            /\ d.payload.exp * TicksPerSecond < t THEN None
    ELSE d.payload

create_verification_token(email, family_name, user_id, t) ==
    jwt_encode([email |-> email,
                family_name |-> family_name,
                user_id |-> user_id,
                type |-> email_verification,
                iat |-> t,
                exp |-> t + Minutes(VerificationMinutes),
                iss |-> issuer], jwt_secret)

\* a time-boxed verifier that does not look at the purpose tag
verify_verification_token_any_type(token, t) ==
    LET d == jwt_decode(token, jwt_secret, t) IN
    IF d.err # "" THEN None ELSE d.payload

verify_verification_token(token, t) ==
    LET d == jwt_decode(token, jwt_secret, t) IN
    IF d.err # "" THEN None
    ELSE IF ~("type" \in DOMAIN d.payload /\ d.payload.type = email_verification)
        THEN None
    ELSE d.payload


\* --------------------------------------------------------------- the store
UserIds == 1..MaxUsers
GoogleIdOf == [e \in Emails |-> IF e = alice THEN <<"g", "a">> ELSE <<"g", "b">>]

RECURSIVE FirstWhere(_, _, _)
\* position of the first row of table t, from i on, that Test accepts; 0 if none
FirstWhere(t, Test(_), i) ==
    IF i > Len(t) THEN 0 ELSE IF Test(t[i]) THEN i ELSE FirstWhere(t, Test, i + 1)

get_user_by_email(email) ==
    LET Test(r) == r.email = email
        i == FirstWhere(users, Test, 1)
    IN IF i = 0 THEN None ELSE users[i]

get_user_by_google_id(google_id) ==
    LET Test(r) == r.google_id = google_id
        i == FirstWhere(users, Test, 1)
    IN IF i = 0 THEN None ELSE users[i]

\* the row create_user inserts; email and google_id are unique columns
NewUser(email, google_id, name) ==
    [id |-> Len(users) + 1, email |-> email, google_id |-> google_id, name |-> name,
     verified_at |-> None, last_login |-> None, is_active |-> TRUE]
UserUnique(email, google_id) ==
    get_user_by_email(email) = None /\ get_user_by_google_id(google_id) = None

UserExists(user_id) == user_id \in 1..Len(users)

\* the row grant_family_access inserts
NewGrant(user_id, family_name, granted_by) ==
    [user_id |-> user_id, family_name |-> family_name, granted_by |-> granted_by,
     is_active |-> TRUE]
grant_family_access(g, user_id, family_name, granted_by) ==
    Append(g, NewGrant(user_id, family_name, granted_by))

\* get_user_families over a grants table: one name per active row, in id order
FamiliesIn(g, user_id) ==
    LET Mine(r) == r.user_id = user_id /\ r.is_active = TRUE
        rows == SelectSeq(g, Mine)
    IN [i \in 1..Len(rows) |-> rows[i].family_name]
get_user_families(user_id) == FamiliesIn(grants, user_id)

\* secrets.choice over A-Z0-9, eight times: samples of what it can return
CodeLen == 8
CodeChars ==
    {"A", "B", "C", "D", "E", "F", "G", "H", "I", "J", "K", "L", "M", "N", "O", "P",
     "Q", "R", "S", "T", "U", "V", "W", "X", "Y", "Z",
     "0", "1", "2", "3", "4", "5", "6", "7", "8", "9"}
RandomParts ==
    {<<"A", "B", "C", "1", "2", "3", "X", "Y">>,
     <<"Z", "9", "Q", "0", "K", "7", "M", "4">>}

\* a generator whose loop runs range(7)
NewCode_short(user_id, family_name, max_uses, expires_days, random_part, t) ==
    [code |-> Lower(family_name) \o SubSeq(random_part, 1, 7),
     family_name |-> family_name,
     created_by_user_id |-> user_id,
     max_uses |-> max_uses,
     expires_at |-> IF Truthy(expires_days) THEN Some(t + Days(Val(expires_days))) ELSE None,
     current_uses |-> 0,
     is_active |-> TRUE]

\* the row create_invitation_code inserts; code is a unique column
NewCode(user_id, family_name, max_uses, expires_days, random_part, t) ==
    [code |-> Lower(family_name) \o random_part,
     family_name |-> family_name,
     created_by_user_id |-> user_id,
     max_uses |-> max_uses,
     expires_at |-> IF Truthy(expires_days) THEN Some(t + Days(Val(expires_days))) ELSE None,
     current_uses |-> 0,
     is_active |-> TRUE]

CodeAt(code) ==
    LET Test(r) == r.code = code /\ r.is_active = TRUE
    IN FirstWhere(codes, Test, 1)
get_invitation_code(code) == IF CodeAt(code) = 0 THEN None ELSE codes[CodeAt(code)]
CodeUnique(code) == \A i \in 1..Len(codes) : codes[i].code # code

\* the checks of use_invitation_code on the row its session loaded
CanRedeem(invitation, t) ==
    /\ invitation # None
    /\ ~(invitation.expires_at # None /\ Val(invitation.expires_at) < t)
    /\ ~(Truthy(invitation.max_uses) /\ invitation.current_uses >= Val(invitation.max_uses))

InvitationGrant(code) == <<"invitation_", code>>


\* ------------------------------------------------------- requests, replies
Threads == 1..NumThreads
Idle == [t \in Threads |-> "idle"]
NoSnap == [t \in Threads |-> None]

\* a response: HTTP status (0 for a direct call of a service method), its
\* detail or redirect target, whether it sets the authorization cookie (the
\* cookie itself is in the variable cookie), its body, and the token presented
Reply(op, status, detail, set_cookie, body, tok) ==
    [op |-> op, status |-> status, detail |-> detail, set_cookie |-> set_cookie # None,
     body |-> body, tok |-> tok]

\* a token re-signed with a key that is not the configured one
Resign(token) == [sig |-> OtherKey, payload |-> token.payload]
Held == {cookie, link} \ {None}
Presentable == {Malformed} \cup Held \cup {Resign(t) : t \in Held}
\* values of the authorization cookie a client may send
Authorizations ==
    {None} \cup {<<"Bearer ", t>> : t \in Presentable} \cup {<<t>> : t \in Presentable}
TokenOf(authorization) ==
    IF authorization = None THEN None
    ELSE IF Len(authorization) = 2 THEN authorization[2] ELSE authorization[1]

get_current_user(authorization, t) ==
    IF authorization = None THEN None ELSE verify_jwt_token(TokenOf(authorization), t)

SelectFamily == <<"https://family.futurelink.zip/select-family">>
ErrorPage == <<"https://family.futurelink.zip/error?message=Invalid+or+expired+link">>
FamiliesPage(family_name) == <<"https://family.futurelink.zip/families/", family_name>>
FamilyPage(family_name) == <<"https://family.futurelink.zip/", family_name>>

\* the log line of a successful magic-link login, kept or not
NoLog == [kept |-> FALSE, accepted |-> EmptyBag, timed |-> FALSE, issued |-> {}]
NewLog == [kept |-> TRUE, accepted |-> EmptyBag, timed |-> FALSE, issued |-> {}]
\* the log with the value of datetime.now() at each issue of a token
TimeLog == [kept |-> FALSE, accepted |-> EmptyBag, timed |-> TRUE, issued |-> {}]
Stamp(log, token, t) ==
    IF log.timed /\ token # None THEN [log EXCEPT !.issued = @ \cup {<<token, t>>}] ELSE log

\* nothing asked yet
Start == [op |-> "start", status |-> 0, detail |-> "", set_cookie |-> FALSE,
          body |-> None, tok |-> None]

\* ------------------------------------------------------ the email service
\* CACHE_TTL, in seconds
CACHE_TTL == 3600
\* the SES settings the environment may hold: credentials and regions that
\* differ in one or in both, and settings without an access key
SesEnvironments ==
    {[AWS_ACCESS_KEY_ID |-> "AKIA-1", SES_REGION |-> "us-east-1"],
     [AWS_ACCESS_KEY_ID |-> "AKIA-2", SES_REGION |-> "eu-west-1"],
     [AWS_ACCESS_KEY_ID |-> "AKIA-1", SES_REGION |-> "eu-west-1"],
     [AWS_ACCESS_KEY_ID |-> "", SES_REGION |-> "us-east-1"]}
\* FamilyEmailService(): nothing cached, no client yet
FamilyEmailService ==
    [environ |-> [AWS_ACCESS_KEY_ID |-> "AKIA-1", SES_REGION |-> "us-east-1"],
     cached_config |-> None, cache_expiry |-> 0, ses_client |-> None]

\* _get_config_from_environment: the configuration, or the ValueError of
\* _validate_ses_config
_get_config_from_environment(environ) ==
    IF environ.AWS_ACCESS_KEY_ID = "" \/ environ.SES_REGION = ""
    THEN [raised |-> "ValueError", config |-> None]
    ELSE [raised |-> "",
          config |-> [access_key_id |-> environ.AWS_ACCESS_KEY_ID,
                      region |-> environ.SES_REGION]]

\* get_ses_config at time t: what it returns or raises, and the service after it
get_ses_config(s, t) ==
    IF s.cached_config # None /\ t < s.cache_expiry
    THEN [raised |-> "", config |-> s.cached_config, self |-> s]
    ELSE LET loaded == _get_config_from_environment(s.environ) IN
         IF loaded.raised # "" THEN [raised |-> loaded.raised, config |-> None, self |-> s]
         ELSE [raised |-> "", config |-> loaded.config,
               self |-> [s EXCEPT !.cached_config = loaded.config,
                                  !.cache_expiry = t + CACHE_TTL * TicksPerSecond]]

\* boto3.client('ses', ...): the client remembers what it was built from
boto3_client(config) ==
    [aws_access_key_id |-> config.access_key_id, region_name |-> config.region]

\* _get_ses_client at time t: the client it returns, and the service after it
_get_ses_client(s, t) ==
    IF s.ses_client # None THEN [raised |-> "", client |-> s.ses_client, self |-> s]
    ELSE LET got == get_ses_config(s, t) IN
         IF got.raised # "" THEN [raised |-> got.raised, client |-> None, self |-> got.self]
         ELSE [raised |-> "", client |-> boto3_client(got.config),
               self |-> [got.self EXCEPT !.ses_client = boto3_client(got.config)]]

\* the sending part of send_family_magic_link (ses_service.py 482-495); the
\* response keeps the configuration that get_ses_config returned and the
\* client that sent the message
SendMagicLink ==
    LET got == get_ses_config(ses, now) IN
    IF got.raised # ""
    THEN /\ ses' = got.self
         /\ resp' = Reply("send_family_magic_link", 0, got.raised, None, None, None)
         /\ UNCHANGED <<service, logins, users, grants, codes, consents, now, advances,
                        cookie, link, pending, pc, snap>>
    ELSE LET made == _get_ses_client(got.self, now) IN
         /\ ses' = made.self
         /\ resp' = Reply("send_family_magic_link", 0, "sent", None,
                          [config |-> got.config, client |-> made.client], None)
         /\ UNCHANGED <<service, logins, users, grants, codes, consents, now, advances,
                        cookie, link, pending, pc, snap>>

ClearCache ==
    /\ ses' = [ses EXCEPT !.cached_config = None, !.cache_expiry = 0, !.ses_client = None]
    /\ resp' = Reply("clear_cache", 0, "returned", None, None, None)
    /\ UNCHANGED <<service, logins, users, grants, codes, consents, now, advances,
                   cookie, link, pending, pc, snap>>

\* the operator puts other SES settings into the environment of the process
Rotate(environ) ==
    /\ environ # ses.environ
    /\ ses' = [ses EXCEPT !.environ = environ]
    /\ resp' = Start
    /\ UNCHANGED <<service, logins, users, grants, codes, consents, now, advances,
                   cookie, link, pending, pc, snap>>

Init ==
    /\ users = <<>>
    /\ grants = <<>>
    /\ codes = <<>>
    /\ consents = <<>>
    /\ now = 0
    /\ advances = 0
    /\ cookie = None
    /\ link = None
    /\ pending = None
    /\ resp = Start
    /\ pc = Idle
    /\ snap = NoSnap
    /\ logins = NoLog
    /\ service = Running
    /\ ses = FamilyEmailService

\* ---------------------------------------------------------- the start
\* main.py imports auth.google, whose last statements construct google_auth
Import ==
    /\ service.google_auth = NotImported
    /\ service' = [service EXCEPT !.google_auth = GoogleAuthService(service.environ)]
    /\ resp' = Reply("GoogleAuthService", 0, service'.google_auth.state, None, None, None)
    /\ UNCHANGED <<ses, logins, users, grants, codes, consents, now, advances, cookie, link,
                   pending, pc, snap>>

\* ------------------------------------------------------------ the clock
\* time passes; the response of the last request is then no longer current
Advance(d) ==
    /\ advances < MaxAdvances
    /\ now' = now + d
    /\ advances' = advances + 1
    /\ resp' = Start
    /\ UNCHANGED <<ses, service, logins, users, grants, codes, consents, cookie, link, pending, pc, snap>>

\* ------------------------------------------- direct calls of the services
CreateUser(email, google_id) ==
    /\ Len(users) < MaxUsers
    /\ IF UserUnique(email, google_id)
       THEN /\ users' = Append(users, NewUser(email, google_id, email))
            /\ resp' = Reply("create_user", 0, "returned", None, None, None)
       ELSE /\ users' = users
            /\ resp' = Reply("create_user", 0, "IntegrityError", None, None, None)
    /\ UNCHANGED <<ses, service, logins, grants, codes, consents, now, advances, cookie, link, pending, pc, snap>>

GrantFamilyAccess(user_id, family_name) ==
    /\ Len(grants) < MaxGrants
    /\ IF UserExists(user_id)
       THEN /\ grants' = grant_family_access(grants, user_id, family_name, <<"admin">>)
            /\ resp' = Reply("grant_family_access", 0, "returned", None, None, None)
       ELSE /\ grants' = grants
            /\ resp' = Reply("grant_family_access", 0, "IntegrityError", None, None, None)
    /\ UNCHANGED <<ses, service, logins, users, codes, consents, now, advances, cookie, link, pending, pc, snap>>

CreateInvitationCode(user_id, family_name, max_uses, expires_days, random_part) ==
    LET row == NewCode(user_id, family_name, max_uses, expires_days, random_part, now) IN
    /\ Len(codes) < MaxCodes
    /\ IF UserExists(user_id) /\ CodeUnique(row.code)
       THEN /\ codes' = Append(codes, row)
            /\ resp' = Reply("create_invitation_code", 0, "returned", None, row.code, None)
       ELSE /\ codes' = codes
            /\ resp' = Reply("create_invitation_code", 0, "IntegrityError", None, None, None)
    /\ UNCHANGED <<ses, service, logins, users, grants, consents, now, advances, cookie, link, pending, pc, snap>>

\* create_verification_token called for an address, as the sender of a
\* verification email does
IssueTimeBoxed(email, family_name, user_id) ==
    /\ link' = create_verification_token(email, family_name, user_id, now)
    /\ resp' = Reply("create_verification_token", 0, "returned", None,
                     [email |-> email, family_name |-> family_name, user_id |-> user_id], None)
    /\ logins' = Stamp(logins, link', now)
    /\ UNCHANGED <<ses, service, users, grants, codes, consents, now, advances, cookie, pending, pc, snap>>

\* create_jwt_token called with the caller's own arguments
IssueSession(user_id, email, families) ==
    /\ cookie' = create_jwt_token(user_id, email, families, now)
    /\ resp' = Reply("create_jwt_token", 0, "returned", None,
                     [user_id |-> user_id, email |-> email, families |-> families], None)
    /\ logins' = Stamp(logins, cookie', now)
    /\ UNCHANGED <<ses, service, users, grants, codes, consents, now, advances, link, pending, pc, snap>>


\* --------------------------------------------------------- signup journey
Nonces == {<<"n", "1">>, <<"n", "2">>}

\* get_authorization_url: the state parameter it puts into the URL
get_authorization_url(family_name, state) == family_name \o colon \o state

\* start_signup's own state string
auth_state(email, nonce) == signup \o colon \o email \o colon \o nonce

StartSignup(email, nonce) ==
    /\ pending' = get_authorization_url(signup, auth_state(email, nonce))
    /\ resp' = Reply("start_signup", 200, "", None,
                     [auth_url |-> get_authorization_url(signup, auth_state(email, nonce)),
                      email |-> email,
                      state |-> auth_state(email, nonce)], None)
    /\ UNCHANGED <<ses, service, logins, users, grants, codes, consents, now, advances, cookie, link, pc, snap>>

\* what the identity provider answers to the code: a failure of the exchange,
\* or the claims of a verified id token
IdpFailures == {[fail |-> "network"], [fail |-> "no id_token"], [fail |-> "id token rejected"]}
IdInfos ==
    {[sub |-> GoogleIdOf[e], email |-> e, name |-> e, email_verified |-> v] :
        e \in Emails, v \in BOOLEAN}
\* verified id tokens that lack one of the claims sub, email, name
PartialIdInfos ==
    {[email |-> alice, name |-> alice, email_verified |-> TRUE],
     [sub |-> GoogleIdOf[alice], name |-> alice, email_verified |-> TRUE],
     [sub |-> GoogleIdOf[alice], email |-> alice, email_verified |-> TRUE]}
IdpAnswers == IdpFailures \cup IdInfos \cup PartialIdInfos

\* dict.get(key, default)
Get(d, key, default) == IF key \in DOMAIN d THEN d[key] ELSE default

exchange_code_for_tokens(state, idp) ==
    IF "fail" \in DOMAIN idp THEN [success |-> FALSE, error |-> idp.fail]
    ELSE [success |-> TRUE,
          user_info |-> [google_id |-> Get(idp, "sub", None),
                         email |-> Get(idp, "email", None),
                         name |-> Get(idp, "name", None),
                         email_verified |-> Get(idp, "email_verified", FALSE)],
          family_name |-> IF HasColon(state) THEN Some(BeforeColon(state)) ELSE None,
          state |-> IF HasColon(state) THEN AfterColon(state) ELSE state]

\* the user row after oauth_callback stamped it
Stamped(user, t) == [user EXCEPT !.verified_at = Some(t), !.last_login = Some(t)]

\* a callback that looks the user up, and creates the row, before its checks
oauth_callback_user_first(state, idp) ==
    LET result == exchange_code_for_tokens(state, idp) IN
    IF ~result.success
    THEN [status |-> 500, detail |-> "400: OAuth exchange failed", users |-> users,
          set_cookie |-> None]
    ELSE [status |-> 500, detail |-> "400: Invalid signup state",
          users |-> IF UserUnique(result.user_info.email, result.user_info.google_id)
                    THEN Append(users, NewUser(result.user_info.email,
                                               result.user_info.google_id,
                                               result.user_info.name))
                    ELSE users,
          set_cookie |-> None]

\* oauth_callback: status, detail or redirect, the users table and the cookie after it
oauth_callback(state, idp) ==
    LET result == exchange_code_for_tokens(state, idp)
        Fail(detail) == [status |-> 500, detail |-> detail, users |-> users, set_cookie |-> None]
    IN
    IF ~result.success THEN Fail("400: OAuth exchange failed")
    ELSE IF ~result.user_info.email_verified THEN Fail("400: Google email not verified")
    ELSE IF result.family_name = None THEN Fail("AttributeError")
    ELSE IF ~StartsWith(Val(result.family_name), signup \o colon)
        THEN Fail("400: Invalid signup state")
    ELSE IF Len(Split2(Val(result.family_name))) # 3 THEN Fail("ValueError")
    ELSE IF result.user_info.email # Split2(Val(result.family_name))[2]
        THEN Fail("400: Email mismatch")
    ELSE
        LET found == get_user_by_email(result.user_info.email)
            email == result.user_info.email
            google_id == result.user_info.google_id
        IN
        IF found = None /\ (\/ ~UserUnique(email, google_id)
                            \/ google_id = None
                            \/ result.user_info.name = None)
        THEN Fail("IntegrityError")
        ELSE
            LET user == IF found = None THEN NewUser(email, google_id, result.user_info.name)
                        ELSE found
                user_families == get_user_families(user.id)
                table == IF found = None THEN Append(users, user) ELSE users
            IN [status |-> 307,
                detail |-> IF user_families # <<>> THEN FamiliesPage(user_families[1])
                           ELSE SelectFamily,
                users |-> [table EXCEPT ![user.id] = Stamped(user, now)],
                set_cookie |-> create_jwt_token(user.id, user.email, user_families, now)]

\* exchange_code_for_tokens called on its own: the result is what it returns
ExchangeCode(state, idp) ==
    /\ resp' = Reply("exchange_code_for_tokens", 0, "returned", None,
                     [result |-> exchange_code_for_tokens(state, idp), idp |-> idp], None)
    /\ UNCHANGED <<ses, service, logins, users, grants, codes, consents, now, advances, cookie, link,
                   pending, pc, snap>>

\* the state values a browser may come back with
CallbackStates ==
    (IF pending = None THEN {} ELSE {pending, AfterColon(pending)})
        \cup {<<"x">>, signup \o colon \o alice}

OAuthCallback(state, idp) ==
    LET out == oauth_callback(state, idp) IN
    /\ Len(out.users) <= MaxUsers
    /\ users' = out.users
    /\ cookie' = IF out.set_cookie = None THEN cookie ELSE out.set_cookie
    /\ resp' = Reply("oauth_callback", out.status, out.detail, out.set_cookie,
                     [state |-> state, idp |-> idp], None)
    /\ UNCHANGED <<ses, service, logins, grants, codes, consents, now, advances, link, pending, pc, snap>>


\* ------------------------------------------------- invitation redemption
\* a redemption that saves the row under the family the caller already holds
use_invitation_code_refiled(code, user_id) ==
    LET invitation == get_invitation_code(code) IN
    IF ~CanRedeem(invitation, now) THEN [ok |-> FALSE, grants |-> grants, codes |-> codes]
    ELSE [ok |-> TRUE,
          grants |-> grant_family_access(grants, user_id, invitation.family_name,
                                         InvitationGrant(code)),
          codes |-> [codes EXCEPT ![CodeAt(code)] =
                        [@ EXCEPT !.current_uses = invitation.current_uses + 1,
                                  !.family_name = IF get_user_families(user_id) = <<>>
                                                  THEN @ ELSE get_user_families(user_id)[1]]]]

\* use_invitation_code run without interruption: whether it returned True,
\* and the two tables after it
use_invitation_code(code, user_id) ==
    LET invitation == get_invitation_code(code) IN
    IF ~CanRedeem(invitation, now) THEN [ok |-> FALSE, grants |-> grants, codes |-> codes]
    ELSE [ok |-> TRUE,
          grants |-> grant_family_access(grants, user_id, invitation.family_name,
                                         InvitationGrant(code)),
          codes |-> [codes EXCEPT ![CodeAt(code)].current_uses = invitation.current_uses + 1]]

\* codes a caller may try: those in the table, and one that is in no table
UnknownCode == bull \o <<"N", "O", "S", "U", "C", "H", "0", "0">>
TriedCodes == {codes[i].code : i \in 1..Len(codes)} \cup {UnknownCode}

UseInvitationCode(code, user_id) ==
    LET out == use_invitation_code(code, user_id) IN
    /\ UserExists(user_id)
    /\ Len(out.grants) <= MaxGrants
    /\ grants' = out.grants
    /\ codes' = out.codes
    /\ resp' = Reply("use_invitation_code", 0, IF out.ok THEN "True" ELSE "False", None,
                     [code |-> code, user_id |-> user_id], None)
    /\ UNCHANGED <<ses, service, logins, users, consents, now, advances, cookie, link, pending, pc, snap>>

\* ---------------------------------------------------- authenticated calls
\* names a client may ask create-family for
FamilyInputs ==
    {<<"B", "u", "l", "l">>, <<" ", "S", "m", " ">>, <<" ", "X", " ">>, <<" ", " ">>}

\* what can happen inside send_family_magic_link: the mail goes out, the
\* configuration is rejected, no client can be made, or SES refuses the mail
SesOutcomes == {"sent", "ValueError", "NoCredentialsError", "ClientError"}

\* a sender that reports success whatever happened
send_family_magic_link_always(outcome) == [success |-> TRUE, message |-> outcome]

\* send_family_magic_link: every exception ends in the failure result
send_family_magic_link(outcome) ==
    IF outcome = "sent" THEN [success |-> TRUE, message |-> "sent"]
    ELSE [success |-> FALSE, message |-> outcome]

\* create-family that files the name as it was typed
create_family_code_as_typed(authorization, requested, random_part, sent) ==
    LET user == get_current_user(authorization, now)
        family_name == requested
        Fail(status, detail) ==
            [status |-> status, detail |-> detail, body |-> None,
             grants |-> grants, codes |-> codes, link |-> link]
    IN
    IF user = None THEN Fail(401, "Not authenticated")
    ELSE IF family_name = <<>> \/ Len(family_name) < 2
        THEN Fail(400, "Family name must be at least 2 characters")
    ELSE LET db_user == get_user_by_email(user.email) IN
    IF db_user = None THEN Fail(404, "User not found")
    ELSE LET row == NewCode(db_user.id, family_name, None, None, random_part, now) IN
    IF ~CodeUnique(row.code) THEN Fail(500, "IntegrityError")
    ELSE [status |-> 200,
          detail |-> "Family created successfully",
          body |-> [family_name |-> family_name, invitation_code |-> row.code,
                    email_sent |-> sent],
          grants |-> grant_family_access(grants, db_user.id, family_name, <<"family_creator">>),
          codes |-> Append(codes, row),
          link |-> create_verification_token(user.email, family_name, Some(db_user.id), now)]

\* create_family_code: status, detail, body and the tables and token after it
create_family_code(authorization, requested, random_part, sent) ==
    LET user == get_current_user(authorization, now)
        family_name == Strip(Lower(requested))
        Fail(status, detail) ==
            [status |-> status, detail |-> detail, body |-> None,
             grants |-> grants, codes |-> codes, link |-> link]
    IN
    IF user = None THEN Fail(401, "Not authenticated")
    ELSE IF family_name = <<>> \/ Len(family_name) < 2
        THEN Fail(400, "Family name must be at least 2 characters")
    ELSE LET db_user == get_user_by_email(user.email) IN
    IF db_user = None THEN Fail(404, "User not found")
    ELSE LET row == NewCode(db_user.id, family_name, None, None, random_part, now) IN
    IF ~CodeUnique(row.code) THEN Fail(500, "IntegrityError")
    ELSE [status |-> 200,
          detail |-> "Family created successfully",
          body |-> [family_name |-> family_name, invitation_code |-> row.code,
                    email_sent |-> sent],
          grants |-> grant_family_access(grants, db_user.id, family_name, <<"family_creator">>),
          codes |-> Append(codes, row),
          link |-> create_verification_token(user.email, family_name, Some(db_user.id), now)]

CreateFamily(authorization, requested, random_part, sent) ==
    LET out == create_family_code(authorization, requested, random_part, sent) IN
    /\ Len(out.grants) <= MaxGrants
    /\ Len(out.codes) <= MaxCodes
    /\ grants' = out.grants
    /\ codes' = out.codes
    /\ link' = out.link
    /\ resp' = Reply("create_family_code", out.status, out.detail, None, out.body,
                     TokenOf(authorization))
    /\ UNCHANGED <<ses, service, logins, users, consents, now, advances, cookie, pending, pc, snap>>

join_family_with_code(authorization, code) ==
    LET user == get_current_user(authorization, now)
        Fail(status, detail) ==
            [status |-> status, detail |-> detail, body |-> None,
             grants |-> grants, codes |-> codes, link |-> link]
    IN
    IF user = None THEN Fail(401, "Not authenticated")
    ELSE LET db_user == get_user_by_email(user.email) IN
    IF db_user = None THEN Fail(404, "User not found")
    ELSE LET used == use_invitation_code(code, db_user.id) IN
    IF ~used.ok THEN Fail(400, "Invalid or expired invitation code")
    ELSE LET family_name == get_invitation_code(code).family_name IN
         [status |-> 200,
          detail |-> "Successfully joined family",
          body |-> [family_name |-> family_name, invitation_code |-> code],
          grants |-> used.grants,
          codes |-> used.codes,
          link |-> create_verification_token(user.email, family_name, Some(db_user.id), now)]

JoinFamily(authorization, code) ==
    LET out == join_family_with_code(authorization, code) IN
    /\ Len(out.grants) <= MaxGrants
    /\ grants' = out.grants
    /\ codes' = out.codes
    /\ link' = out.link
    /\ resp' = Reply("join_family_with_code", out.status, out.detail, None,
                     [code |-> code, out |-> out.body], TokenOf(authorization))
    /\ UNCHANGED <<ses, service, logins, users, consents, now, advances, cookie, pending, pc, snap>>

\* /me answering with the family list carried by the session token
get_current_user_info_from_token(authorization) ==
    LET user == get_current_user(authorization, now) IN
    IF user = None THEN [status |-> 401, detail |-> "Not authenticated", body |-> None]
    ELSE LET db_user == get_user_by_email(user.email) IN
    IF db_user = None THEN [status |-> 404, detail |-> "User not found", body |-> None]
    ELSE [status |-> 200, detail |-> "",
          body |-> [id |-> db_user.id, email |-> db_user.email,
                    families |-> user.families]]

get_current_user_info(authorization) ==
    LET user == get_current_user(authorization, now) IN
    IF user = None THEN [status |-> 401, detail |-> "Not authenticated", body |-> None]
    ELSE LET db_user == get_user_by_email(user.email) IN
    IF db_user = None THEN [status |-> 404, detail |-> "User not found", body |-> None]
    ELSE [status |-> 200, detail |-> "",
          body |-> [id |-> db_user.id, email |-> db_user.email,
                    families |-> get_user_families(db_user.id)]]

Me(authorization) ==
    LET out == get_current_user_info(authorization) IN
    /\ resp' = Reply("get_current_user_info", out.status, out.detail, None, out.body,
                     TokenOf(authorization))
    /\ UNCHANGED <<ses, service, logins, users, grants, codes, consents, now, advances, cookie, link, pending,
                   pc, snap>>


\* ------------------------------------------------ time-boxed token journeys
\* magic_login: every failure inside the handler ends in the same redirect
\* magic-link login that lets the missing user surface as a 404
magic_login_not_found(token) ==
    LET payload == verify_verification_token(token, now) IN
    IF payload = None
    THEN [status |-> 307, detail |-> ErrorPage, users |-> users, grants |-> grants,
          set_cookie |-> None]
    ELSE [status |-> 404, detail |-> <<"User not found">>, users |-> users, grants |-> grants,
          set_cookie |-> None]

\* magic_login from the test of the family list on (main.py 367-391), for the
\* list held that get_user_families returned
magic_login_granting(payload, user, held) ==
    LET missing == payload.family_name \notin SeqRange(held)
        user_families == IF missing THEN Append(held, payload.family_name) ELSE held
    IN [status |-> 307,
        detail |-> FamiliesPage(payload.family_name),
        users |-> [users EXCEPT ![user.id] = Stamped(user, now)],
        grants |-> IF missing
                   THEN grant_family_access(grants, user.id, payload.family_name,
                                            <<"magic_link">>)
                   ELSE grants,
        set_cookie |-> create_jwt_token(user.id, payload.email, user_families, now)]

\* magic-link login that takes the user id from the token when it has one
magic_login_trusting_token_id(token) ==
    LET payload == verify_verification_token(token, now)
        Fail == [status |-> 307, detail |-> ErrorPage, users |-> users, grants |-> grants,
                 set_cookie |-> None]
    IN
    IF payload = None THEN Fail
    ELSE LET user == get_user_by_email(payload.email) IN
    IF user = None THEN Fail
    ELSE LET out == magic_login_granting(payload, user, get_user_families(user.id)) IN
         [out EXCEPT !.set_cookie =
            create_jwt_token(IF payload.user_id = None THEN user.id ELSE Val(payload.user_id),
                             payload.email, out.set_cookie.payload.families, now)]

magic_login(token) ==
    LET payload == verify_verification_token(token, now)
        Fail == [status |-> 307, detail |-> ErrorPage, users |-> users, grants |-> grants,
                 set_cookie |-> None]
    IN
    IF payload = None THEN Fail
    \* payload["email"], payload["family_name"]: a KeyError is caught like the rest
    ELSE IF ~({"email", "family_name"} \subseteq DOMAIN payload) THEN Fail
    ELSE LET user == get_user_by_email(payload.email) IN
    IF user = None THEN Fail
    ELSE magic_login_granting(payload, user, get_user_families(user.id))

\* tokens a client may put into the path of /magic/ and /verify/
MagicLogin(token) ==
    LET out == magic_login(token) IN
    /\ Len(out.grants) <= MaxGrants
    /\ users' = out.users
    /\ grants' = out.grants
    /\ cookie' = IF out.set_cookie = None THEN cookie ELSE out.set_cookie
    /\ resp' = Reply("magic_login", out.status, out.detail, out.set_cookie, None, token)
    /\ logins' = Stamp(IF out.set_cookie = None \/ ~logins.kept THEN logins
                       ELSE [logins EXCEPT !.accepted = @ (+) SetToBag({token})],
                       out.set_cookie, now)
    /\ \A t \in BagToSet(logins'.accepted) : CopiesIn(t, logins'.accepted) <= MaxLogins
    /\ UNCHANGED <<ses, service, codes, consents, now, advances, link, pending, pc, snap>>

\* verify_email: every failure inside the handler becomes a 500
verify_email(token) ==
    LET payload == verify_verification_token(token, now)
        Fail(detail) == [status |-> 500, detail |-> detail, users |-> users,
                         grants |-> grants, set_cookie |-> None]
    IN
    IF payload = None THEN Fail("400: Invalid or expired verification token")
    \* str(KeyError) of payload["email"] and of payload["family_name"]
    ELSE IF "email" \notin DOMAIN payload THEN Fail("'email'")
    ELSE IF "family_name" \notin DOMAIN payload THEN Fail("'family_name'")
    ELSE LET user == get_user_by_email(payload.email) IN
    IF user = None THEN Fail("404: User not found")
    ELSE
        LET granted == grant_family_access(grants, user.id, payload.family_name,
                                           <<"email_verification">>)
        IN [status |-> 307,
            detail |-> FamilyPage(payload.family_name),
            users |-> [users EXCEPT ![user.id] = Stamped(user, now)],
            grants |-> granted,
            set_cookie |-> create_jwt_token(user.id, payload.email,
                                            FamiliesIn(granted, user.id), now)]

VerifyEmail(token) ==
    LET out == verify_email(token) IN
    /\ Len(out.grants) <= MaxGrants
    /\ users' = out.users
    /\ grants' = out.grants
    /\ cookie' = IF out.set_cookie = None THEN cookie ELSE out.set_cookie
    /\ resp' = Reply("verify_email", out.status, out.detail, out.set_cookie, None, token)
    /\ UNCHANGED <<ses, service, logins, codes, consents, now, advances, link, pending, pc, snap>>

\* ------------------------------------------------------------------ consent
\* the row record_consent inserts
NewConsent(user_id, family_name, marketing_consent, terms_accepted) ==
    [user_id |-> user_id, family_name |-> family_name,
     marketing_consent |-> marketing_consent, terms_accepted |-> terms_accepted,
     consent_version |-> "1.0"]

\* family names a client may put into the path of /consent/
ConsentFamilies == {bull, <<"s", "m">>}

\* consent capture without the test of the family name
record_consent_any_family(authorization, family, marketing_consent, terms_accepted) ==
    LET user == get_current_user(authorization, now) IN
    IF user = None
    THEN [status |-> 401, detail |-> "Not authenticated", consents |-> consents]
    ELSE IF user.user_id = None \/ ~UserExists(Val(user.user_id))
        THEN [status |-> 500, detail |-> "IntegrityError", consents |-> consents]
    ELSE [status |-> 200,
          detail |-> "Consent recorded",
          consents |-> Append(consents, NewConsent(Val(user.user_id), family,
                                                   marketing_consent, terms_accepted))]

record_consent(authorization, family, marketing_consent, terms_accepted) ==
    LET user == get_current_user(authorization, now)
        Fail(status, detail) == [status |-> status, detail |-> detail, consents |-> consents]
    IN
    IF user = None THEN Fail(401, "Not authenticated")
    ELSE IF ~is_valid_family(family) THEN Fail(400, "Invalid family name")
    ELSE IF user.user_id = None \/ ~UserExists(Val(user.user_id))
        THEN Fail(500, "IntegrityError")
    ELSE [status |-> 200,
          detail |-> "Consent recorded",
          consents |-> Append(consents, NewConsent(Val(user.user_id), family,
                                                   marketing_consent, terms_accepted))]

Consent(authorization, family, marketing_consent, terms_accepted) ==
    LET out == record_consent(authorization, family, marketing_consent, terms_accepted) IN
    /\ Len(out.consents) <= MaxConsents
    /\ consents' = out.consents
    /\ resp' = Reply("record_consent", out.status, out.detail, None,
                     [family |-> family], TokenOf(authorization))
    /\ UNCHANGED <<ses, service, logins, users, grants, codes, now, advances, cookie, link, pending, pc, snap>>

\* ------------------------------------------- magic_login, step by step
\* a request verifies its token, loads the user and reads the user's family
\* list, each in a session of its own (main.py 349-366)
MagicQuery(t, token) ==
    /\ pc[t] = "idle"
    /\ verify_verification_token(token, now) # None
    /\ get_user_by_email(verify_verification_token(token, now).email) # None
    /\ pc' = [pc EXCEPT ![t] = "granting"]
    /\ snap' = [snap EXCEPT ![t] =
                    [token |-> token,
                     payload |-> verify_verification_token(token, now),
                     user |-> get_user_by_email(verify_verification_token(token, now).email),
                     held |-> get_user_families(
                        get_user_by_email(verify_verification_token(token, now).email).id)]]
    /\ UNCHANGED <<ses, service, logins, users, grants, codes, consents, now, advances, cookie, link,
                   pending, resp>>

\* it grants the family if the list it read lacks it, makes the session
\* token from that list and answers (main.py 367-391)
MagicFinish(t) ==
    LET out == magic_login_granting(snap[t].payload, snap[t].user, snap[t].held) IN
    /\ pc[t] = "granting"
    /\ Len(out.grants) <= MaxGrants
    /\ users' = out.users
    /\ grants' = out.grants
    /\ cookie' = out.set_cookie
    /\ resp' = Reply("magic_login", out.status, out.detail, out.set_cookie, None, snap[t].token)
    /\ pc' = [pc EXCEPT ![t] = "answered"]
    /\ UNCHANGED <<ses, service, logins, codes, consents, now, advances, link, pending, snap>>

\* ------------------------------------ use_invitation_code, step by step
\* a thread's session loads the row (models.py 294-297)
RedeemQuery(t, code, user_id) ==
    /\ pc[t] = "idle"
    /\ UserExists(user_id)
    /\ pc' = [pc EXCEPT ![t] = "check"]
    /\ snap' = [snap EXCEPT ![t] = [code |-> code, user_id |-> user_id,
                                    invitation |-> get_invitation_code(code),
                                    at |-> CodeAt(code)]]
    /\ UNCHANGED <<ses, service, logins, users, grants, codes, consents, now, advances, cookie, link, pending, resp>>

\* the three checks on the loaded row (299-308)
RedeemCheck(t) ==
    /\ pc[t] = "check"
    /\ pc' = [pc EXCEPT ![t] = IF CanRedeem(snap[t].invitation, now) THEN "grant" ELSE "False"]
    /\ UNCHANGED <<ses, service, logins, users, grants, codes, consents, now, advances, cookie, link, pending,
                   resp, snap>>

\* grant_family_access commits in a session of its own (311)
RedeemGrant(t) ==
    /\ pc[t] = "grant"
    /\ grants' = grant_family_access(grants, snap[t].user_id, snap[t].invitation.family_name,
                                     InvitationGrant(snap[t].code))
    /\ pc' = [pc EXCEPT ![t] = "increment"]
    /\ UNCHANGED <<ses, service, logins, users, codes, consents, now, advances, cookie, link, pending, resp, snap>>

\* the loaded value plus one is written back and committed (314-318)
RedeemIncrement(t) ==
    /\ pc[t] = "increment"
    /\ codes' = [codes EXCEPT ![snap[t].at].current_uses = snap[t].invitation.current_uses + 1]
    /\ pc' = [pc EXCEPT ![t] = "True"]
    /\ UNCHANGED <<ses, service, logins, users, grants, consents, now, advances, cookie, link, pending, resp, snap>>


\* ------------------------------------------------------- the specifications
\* The rows of two users who signed up earlier.
Alice == [id |-> 1, email |-> alice, google_id |-> GoogleIdOf[alice], name |-> alice,
          verified_at |-> None, last_login |-> None, is_active |-> TRUE]
Bob == [id |-> 2, email |-> bob, google_id |-> GoogleIdOf[bob], name |-> bob,
        verified_at |-> None, last_login |-> None, is_active |-> TRUE]

\* Seeded(u, g, c): the state in which the tables hold u, g and c and nothing
\* has been asked yet.
SeededLog(u, g, c, l) ==
    /\ users = u
    /\ grants = g
    /\ codes = c
    /\ consents = <<>>
    /\ now = 0
    /\ advances = 0
    /\ cookie = None
    /\ link = None
    /\ pending = None
    /\ resp = Start
    /\ pc = Idle
    /\ snap = NoSnap
    /\ logins = l
    /\ service = Running
    /\ ses = FamilyEmailService
Seeded(u, g, c) == SeededLog(u, g, c, NoLog)

\* --- Spec: the store's own operations on users and grants
GrantFamilies == {bull, north}
\* family lists a session token is issued with
SessionLists == {None, <<north>>}
Next ==
    \/ \E e \in Emails : CreateUser(e, GoogleIdOf[e])
    \/ \E u \in UserIds, f \in GrantFamilies : GrantFamilyAccess(u, f)
    \/ \E a \in Authorizations : Me(a)
    \/ \E u \in UserIds, e \in Emails, l \in SessionLists : IssueSession(u, e, l)

Spec == Init /\ [][Next]_vars

\* --- SpecRedeem: two users, one invitation code with a use limit, and
\* NumThreads threads each calling use_invitation_code once
LimitedCode(n) ==
    [code |-> bull \o (CHOOSE r \in RandomParts : TRUE), family_name |-> bull,
     created_by_user_id |-> 1, max_uses |-> Some(n), expires_at |-> None,
     current_uses |-> 0, is_active |-> TRUE]
RedeemInit == \E n \in 1..MaxUses : Seeded(<<Alice, Bob>>, <<>>, <<LimitedCode(n)>>)

RedeemNext ==
    \/ \E t \in Threads, c \in TriedCodes, u \in UserIds :
            RedeemQuery(t, c, u)
    \/ \E t \in Threads : RedeemCheck(t)
    \/ \E t \in Threads : RedeemGrant(t)
    \/ \E t \in Threads : RedeemIncrement(t)

SpecRedeem == RedeemInit /\ [][RedeemNext]_vars

\* --- SpecSignup: the signup journey on an empty or a populated users table
SignupNext ==
    \/ \E e \in Emails : CreateUser(e, GoogleIdOf[e])
    \/ \E e \in Emails, n \in Nonces : StartSignup(e, n)
    \/ \E s \in CallbackStates, i \in IdpAnswers : OAuthCallback(s, i)

SpecSignup == Init /\ [][SignupNext]_vars


\* --- SpecExchange: the identity exchange on its own, for every state a
\* browser may come back with and every answer of the identity provider
ExchangeNext ==
    \/ \E e \in Emails, n \in Nonces : StartSignup(e, n)
    \/ \E s \in CallbackStates, i \in IdpAnswers : ExchangeCode(s, i)

SpecExchange == Init /\ [][ExchangeNext]_vars


\* --- SpecAuth: tokens of both kinds, the clock, and every handler that
\* takes a token; alice has a user row, bob has none
SessionArgs == {<<1, alice, None>>, <<2, bob, <<bull>>>>, <<1, alice, <<north, bull>>>>}
TimeBoxedArgs == {<<alice, bull, Some(1)>>, <<bob, north, None>>}
\* steps of the clock: one tick more than the life of each kind of token
PastLifetimes == {Minutes(VerificationMinutes) + 1, Hours(SessionHours) + 1}
OneRandomPart == CHOOSE r \in RandomParts : TRUE

AuthNext ==
    \/ \E d \in PastLifetimes : Advance(d)
    \/ \E a \in SessionArgs : IssueSession(a[1], a[2], a[3])
    \/ \E a \in TimeBoxedArgs : IssueTimeBoxed(a[1], a[2], a[3])
    \/ \E a \in Authorizations : Me(a)
    \/ \E t \in Presentable : MagicLogin(t)
    \/ \E t \in Presentable : VerifyEmail(t)

SpecAuth == Seeded(<<Alice>>, <<>>, <<>>) /\ [][AuthNext]_vars


\* what a browser sends: its cookie, if it has one
\* the authorization cookie of a browser that holds the tokens handed out
JourneyCookies == {None} \cup {<<"Bearer ", t>> : t \in Held}

\* --- SpecConsent: consent capture by one signed-up user, with her session
\* cookie or with the token of a magic link that was mailed to her
\* marketing consent and acceptance of the terms, as ticked in the form
ConsentChoices == {<<TRUE, TRUE>>, <<FALSE, TRUE>>, <<FALSE, FALSE>>}
ConsentNext ==
    \/ \E d \in PastLifetimes : Advance(d)
    \/ IssueSession(1, alice, None)
    \/ IssueTimeBoxed(alice, bull, Some(1))
    \/ \E a \in JourneyCookies, f \in ConsentFamilies, c \in ConsentChoices :
            Consent(a, f, c[1], c[2])

SpecConsent == Seeded(<<Alice>>, <<>>, <<>>) /\ [][ConsentNext]_vars

\* --- SpecMagic: magic links mailed to one signed-up user and followed,
\* with the log of successful logins kept
MagicNext ==
    \/ \E d \in PastLifetimes : Advance(d)
    \/ \E f \in GrantFamilies : IssueTimeBoxed(alice, f, Some(1))
    \/ \E t \in Presentable : MagicLogin(t)

SpecMagic == SeededLog(<<Alice>>, <<>>, <<>>, NewLog) /\ [][MagicNext]_vars

\* --- SpecExpiry: one signed-up user, her magic link and the session it
\* logs her into, with the clock started on or between whole seconds and
\* stepped to just before, onto and just past the end of each lifetime
StartTimes == {0, 1}
ExpirySteps ==
    {Minutes(VerificationMinutes) - 1, Minutes(VerificationMinutes),
     Minutes(VerificationMinutes) + 1,
     Hours(SessionHours) - 1, Hours(SessionHours), Hours(SessionHours) + 1}
ExpiryInit ==
    /\ users = <<Alice>>
    /\ grants = <<>>
    /\ codes = <<>>
    /\ consents = <<>>
    /\ now \in StartTimes
    /\ advances = 0
    /\ cookie = None
    /\ link = None
    /\ pending = None
    /\ resp = Start
    /\ pc = Idle
    /\ snap = NoSnap
    /\ logins = TimeLog
    /\ service = Running
    /\ ses = FamilyEmailService

ExpiryNext ==
    \/ \E d \in ExpirySteps : Advance(d)
    \/ IssueTimeBoxed(alice, bull, Some(1))
    \/ \E t \in Held : MagicLogin(t)
    \/ \E a \in JourneyCookies : Me(a)

SpecExpiry == ExpiryInit /\ [][ExpiryNext]_vars

\* --- SpecJourneys: one signed-up user, her session cookie and her magic
\* link, every journey that takes a token, and the clock
JourneyFamily == <<"B", "u", "l", "l">>
JourneysNext ==
    \/ \E d \in PastLifetimes : Advance(d)
    \/ IssueSession(1, alice, None)
    \/ IssueTimeBoxed(alice, bull, Some(1))
    \/ \E a \in JourneyCookies : Me(a)
    \/ \E a \in JourneyCookies : Consent(a, bull, TRUE, TRUE)
    \/ \E a \in JourneyCookies : CreateFamily(a, JourneyFamily, OneRandomPart, TRUE)
    \/ \E a \in JourneyCookies, c \in TriedCodes : JoinFamily(a, c)
    \/ \E t \in Held : MagicLogin(t)
    \/ \E t \in Held : VerifyEmail(t)

SpecJourneys == Seeded(<<Alice>>, <<>>, <<>>) /\ [][JourneysNext]_vars

Browser == {None} \cup {<<"Bearer ", t>> : t \in {cookie} \ {None}}
Logins == {<<1, alice, None>>, <<2, bob, None>>}

\* --- SpecCreate: create-family by two signed-up users
CreateNext ==
    \/ \E a \in Logins : IssueSession(a[1], a[2], a[3])
    \/ \E a \in Browser, f \in FamilyInputs, r \in RandomParts, o \in SesOutcomes :
            CreateFamily(a, f, r, send_family_magic_link(o).success)

SpecCreate == Seeded(<<Alice, Bob>>, <<>>, <<>>) /\ [][CreateNext]_vars

\* --- SpecJoin: join-family by two signed-up users; codes with limits come
\* from create_invitation_code, and one code was retired by an administrator
\* before the run
RetiredCode ==
    [code |-> north \o OneRandomPart, family_name |-> north, created_by_user_id |-> 1,
     max_uses |-> None, expires_at |-> None, current_uses |-> 0, is_active |-> FALSE]
LimitChoices == {None, Some(0), Some(1)}
ExpiryChoices == {None, Some(1)}
CodeLifetime == Days(1) + 1

JoinInit == \E c \in {<<>>, <<RetiredCode>>} : Seeded(<<Alice, Bob>>, <<>>, c)

JoinNext ==
    \/ Advance(CodeLifetime)
    \/ \E a \in Logins : IssueSession(a[1], a[2], a[3])
    \/ \E m \in LimitChoices, x \in ExpiryChoices :
            CreateInvitationCode(1, bull, m, x, OneRandomPart)
    \/ \E a \in Browser, c \in TriedCodes : JoinFamily(a, c)

SpecJoin == JoinInit /\ [][JoinNext]_vars


\* --- SpecStartup: a process started in an environment with or without the
\* secrets; requests are served once main.py has been imported
Environments ==
    {[GOOGLE_CLIENT_ID |-> i, GOOGLE_CLIENT_SECRET |-> "client-secret", JWT_SECRET |-> j] :
        i \in {NotSet, "client-id"}, j \in {NotSet, "", "JWT_SECRET"}}
StartupInit ==
    /\ users = <<Alice>>
    /\ grants = <<>>
    /\ codes = <<>>
    /\ consents = <<>>
    /\ now = 0
    /\ advances = 0
    /\ cookie = None
    /\ link = None
    /\ pending = None
    /\ resp = Start
    /\ pc = Idle
    /\ snap = NoSnap
    /\ logins = NoLog
    /\ \E e \in Environments : service = [environ |-> e, google_auth |-> NotImported]
    /\ ses = FamilyEmailService

StartupNext ==
    \/ Import
    \/ \E d \in PastLifetimes : Advance(d)
    \/ Constructed /\ IssueSession(1, alice, None)
    \/ Constructed /\ \E f \in GrantFamilies : IssueTimeBoxed(alice, f, Some(1))
    \/ Constructed /\ \E a \in Authorizations : Me(a)
    \/ Constructed /\ \E t \in Presentable : MagicLogin(t)

SpecStartup == StartupInit /\ [][StartupNext]_vars

\* --- SpecLogins: magic links for two families mailed to one signed-up
\* user, followed by requests that run at the same time
LoginsNext ==
    \/ \E f \in GrantFamilies : IssueTimeBoxed(alice, f, Some(1))
    \/ \E t \in Threads : link # None /\ MagicQuery(t, link)
    \/ \E t \in Threads : MagicFinish(t)

SpecLogins == Seeded(<<Alice>>, <<>>, <<>>) /\ [][LoginsNext]_vars

\* --- SpecInactive: the three journeys that end in a session, for a user
\* whose row was soft-deactivated (is_active false) before the run; her magic
\* links were mailed by the sender of verification emails
Deactivated(user) == [user EXCEPT !.is_active = FALSE]
InactiveNext ==
    \/ \E n \in Nonces : StartSignup(alice, n)
    \/ \E s \in CallbackStates, i \in IdInfos : OAuthCallback(s, i)
    \/ \E f \in GrantFamilies : IssueTimeBoxed(alice, f, Some(1))
    \/ \E t \in Held : MagicLogin(t)
    \/ \E t \in Held : VerifyEmail(t)

SpecInactive == Seeded(<<Deactivated(Alice)>>, <<>>, <<>>) /\ [][InactiveNext]_vars

\* --- SpecCodes: invitation codes made by create-family and by
\* create_invitation_code, redeemed by join-family and by use_invitation_code
CodeFamilies == {<<"B", "u", "l", "l">>, <<" ", "S", "m", " ">>}
CodesNext ==
    \/ \E a \in Logins : IssueSession(a[1], a[2], a[3])
    \/ \E a \in Browser, f \in CodeFamilies : CreateFamily(a, f, OneRandomPart, TRUE)
    \/ \E m \in LimitChoices : CreateInvitationCode(1, north, m, None, OneRandomPart)
    \/ \E a \in Browser, c \in TriedCodes : JoinFamily(a, c)
    \/ \E c \in TriedCodes, u \in UserIds : UseInvitationCode(c, u)

SpecCodes == Seeded(<<Alice, Bob>>, <<>>, <<>>) /\ [][CodesNext]_vars

\* --- SpecGranted: a signed-up user creates families and records consent
\* for the families she holds
GrantedNext ==
    \/ IssueSession(1, alice, None)
    \/ \E a \in Browser, f \in CodeFamilies, r \in RandomParts : CreateFamily(a, f, r, TRUE)
    \/ \E a \in Browser, f \in ConsentFamilies, c \in ConsentChoices :
            Consent(a, f, c[1], c[2])

SpecGranted == Seeded(<<Alice>>, <<>>, <<>>) /\ [][GrantedNext]_vars

\* --- SpecMail: magic links mailed while the clock passes the life of the
\* cached configuration and the SES settings are replaced
CacheLifetimes == {CACHE_TTL * TicksPerSecond - 1, CACHE_TTL * TicksPerSecond}
MailNext ==
    \/ \E d \in CacheLifetimes : Advance(d)
    \/ \E e \in SesEnvironments : Rotate(e)
    \/ SendMagicLink
    \/ ClearCache

SpecMail == Init /\ [][MailNext]_vars

\* --- SpecIdentity: time-boxed tokens whose user id is missing, is another
\* user's or belongs to nobody, for an address with and without a user row;
\* bob may sign up in between
VerifiedIdInfo(e) == [sub |-> GoogleIdOf[e], email |-> e, name |-> e, email_verified |-> TRUE]
IdentityArgs == {<<alice, bull, Some(2)>>, <<bob, north, Some(1)>>, <<alice, north, None>>}
IdentityNext ==
    \/ CreateUser(bob, GoogleIdOf[bob])
    \/ \E a \in IdentityArgs : IssueTimeBoxed(a[1], a[2], a[3])
    \/ StartSignup(bob, <<"n", "1">>)
    \/ \E s \in CallbackStates, e \in Emails : OAuthCallback(s, VerifiedIdInfo(e))
    \/ \E t \in Held : MagicLogin(t)
    \/ \E t \in Held : VerifyEmail(t)

SpecIdentity == Seeded(<<Alice>>, <<>>, <<>>) /\ [][IdentityNext]_vars


\* ================================================================== claims
Min(a, b) == IF a < b THEN a ELSE b
NoDuplicates(s) == \A i, j \in 1..Len(s) : i # j => s[i] # s[j]
ActiveFamilies(user_id) ==
    {grants[i].family_name : i \in {k \in 1..Len(grants) :
        grants[k].user_id = user_id /\ grants[k].is_active}}

\* C1: for a code with max-use count N >= 1 and K concurrent calls of
\* use_invitation_code against it, exactly min(N, K) calls return True once
\* all have returned, and the code's current-use counter never exceeds N.
Callers == {t \in Threads : snap[t] # None /\ snap[t].code = codes[1].code}
C1_ExactlyMaxUsesAdmitted ==
    /\ codes[1].current_uses <= Val(codes[1].max_uses)
    /\ (\A t \in Threads : pc[t] \in {"True", "False"}) =>
            Cardinality({t \in Callers : pc[t] = "True"})
                = Min(Val(codes[1].max_uses), Cardinality(Callers))

\* C2: get_user_families returns each family of an active grant of the user
\* exactly once, however many grant rows the (user, family) pair has.
C2_FamiliesListedOnce ==
    \A u \in 1..Len(users) :
        /\ NoDuplicates(get_user_families(u))
        /\ SeqRange(get_user_families(u)) = ActiveFamilies(u)

\* C3: when the OAuth callback is invoked with the state that signup-start
\* embedded in the authorization URL for email e, and the identity exchange
\* yields a verified identity with email e, and no user with email e exists,
\* the callback creates the user, sets a session cookie whose family list is
\* empty and redirects to the family-selection page.
C3_SignupEndToEnd ==
    [][\A e \in Emails, n \in Nonces, i \in IdInfos :
        (/\ pending = get_authorization_url(signup, auth_state(e, n))
         /\ i.email = e
         /\ i.email_verified
         /\ get_user_by_email(e) = None
         /\ OAuthCallback(pending, i))
        => (/\ \E k \in 1..Len(users') : users'[k].email = e
            /\ resp'.status = 307
            /\ resp'.detail = SelectFamily
            /\ resp'.set_cookie
            /\ cookie' = create_jwt_token(Len(users) + 1, e, <<>>, now))]_vars


\* what a token is, said without the verifiers
IsJwt(tok) == tok # None /\ "payload" \in DOMAIN tok
HasPurposeTag(tok) ==
    IsJwt(tok) /\ "type" \in DOMAIN tok.payload /\ tok.payload.type = email_verification
SignedHere(tok) == IsJwt(tok) /\ tok.sig = jwt_secret
\* the expiry time of the token lies in the past
Expired(tok, t) ==
    IsJwt(tok) /\ "exp" \in DOMAIN tok.payload /\ tok.payload.exp * TicksPerSecond < t
AuthenticatedOps ==
    {"get_current_user_info", "record_consent", "create_family_code", "join_family_with_code"}

\* C4: a validly signed, unexpired token that carries the purpose tag
\* email_verification does not authenticate a request: presented in the
\* authorization cookie to an authenticated endpoint it is answered 401.
C4_OnlySessionTokensAuthenticate ==
    (resp.op \in AuthenticatedOps /\ HasPurposeTag(resp.tok)) => resp.status = 401

\* C5: a token whose expiry time is in the past is rejected by the session
\* verifier and by the time-boxed verifier although its signature is valid,
\* and a journey that is handed one (/me, consent, create-family, join-family,
\* magic-link login, email verification) changes no table, sets no cookie,
\* makes no token and answers with its failure response.
C5_ExpiredTokensRejected ==
    [][/\ \A tok \in Held' :
            Expired(tok, now') =>
                /\ verify_jwt_token(tok, now') = None
                /\ verify_verification_token(tok, now') = None
       /\ \A a \in JourneyCookies :
            (/\ Expired(TokenOf(a), now)
             /\ \/ Me(a)
                \/ Consent(a, bull, TRUE, TRUE)
                \/ CreateFamily(a, JourneyFamily, OneRandomPart, TRUE)
                \/ \E c \in TriedCodes : JoinFamily(a, c))
            => /\ resp'.status = 401
               /\ UNCHANGED <<users, grants, codes, consents, cookie, link>>
       /\ \A tok \in Held :
            (Expired(tok, now) /\ MagicLogin(tok))
            => /\ resp'.status = 307
               /\ resp'.detail = ErrorPage
               /\ ~resp'.set_cookie
               /\ UNCHANGED <<users, grants, codes, consents, cookie, link>>
       /\ \A tok \in Held :
            (Expired(tok, now) /\ VerifyEmail(tok))
            => /\ resp'.status = 500
               /\ ~resp'.set_cookie
               /\ UNCHANGED <<users, grants, codes, consents, cookie, link>>]_vars

\* a validly signed time-boxed token was presented to magic-link login after
\* its expiry and was turned away
C5_Witness ==
    /\ resp.op = "magic_login"
    /\ resp.tok = link
    /\ SignedHere(link)
    /\ Expired(link, now)
    /\ get_user_by_email(link.payload.email) # None
    /\ resp.detail = ErrorPage

\* C6: a token signed with a key other than the configured secret is
\* rejected by the session verifier and by the time-boxed verifier, whatever
\* its payload, purpose tag and expiry.
C6_ForeignKeyRejected ==
    \A tok \in Presentable :
        (IsJwt(tok) /\ tok.sig # jwt_secret) =>
            /\ verify_jwt_token(tok, now) = None
            /\ verify_verification_token(tok, now) = None
            /\ get_current_user(<<"Bearer ", tok>>, now) = None

\* an unexpired time-boxed token for an existing user, re-signed with another
\* key, was presented to magic-link login and turned away
C6_Witness ==
    /\ resp.op = "magic_login"
    /\ link # None
    /\ resp.tok = Resign(link)
    /\ ~Expired(link, now)
    /\ link.payload.exp * TicksPerSecond > now
    /\ get_user_by_email(link.payload.email) # None
    /\ resp.detail = ErrorPage


\* moments at which a token issued at t0 with the given lifetime is looked at
VerifiedAt(t0, lifetime) ==
    {t \in {t0, t0 + 1, t0 + TicksPerSecond, t0 + lifetime - TicksPerSecond, t0 + lifetime - 1} :
        t >= t0 /\ t < ((t0 + lifetime) \div TicksPerSecond) * TicksPerSecond}
IssuedAt(t0) == t0 \div TicksPerSecond

\* C7: a token read back before its expiry by the verifier of its own kind
\* yields exactly what was put into it: user id, email and family list for a
\* session token (with issue time, expiry 24 hours on, issuer and subject);
\* email, family name and optional user id for a time-boxed token (with the
\* purpose tag, issue time, expiry 30 minutes on and issuer).
C7_TokensRoundTrip ==
    [][/\ \A a \in SessionArgs :
            IssueSession(a[1], a[2], a[3]) =>
                \A t \in VerifiedAt(now, SessionHours * 3600 * TicksPerSecond) :
                    verify_jwt_token(cookie', t) =
                        [user_id |-> <<a[1]>>,
                         email |-> a[2],
                         families |-> a[3],
                         iat |-> IssuedAt(now),
                         exp |-> IssuedAt(now) + SessionHours * 3600,
                         iss |-> issuer,
                         sub |-> Str(a[1])]
       /\ \A a \in TimeBoxedArgs :
            IssueTimeBoxed(a[1], a[2], a[3]) =>
                \A t \in VerifiedAt(now, VerificationMinutes * 60 * TicksPerSecond) :
                    verify_verification_token(link', t) =
                        [email |-> a[1],
                         family_name |-> a[2],
                         user_id |-> a[3],
                         type |-> email_verification,
                         iat |-> IssuedAt(now),
                         exp |-> IssuedAt(now) + VerificationMinutes * 60,
                         iss |-> issuer]]_vars

\* a session token issued after the clock had moved is accepted by an
\* authenticated endpoint some time later, still inside its lifetime
C7_Witness ==
    /\ resp.op = "get_current_user_info"
    /\ resp.status = 200
    /\ resp.tok = cookie
    /\ cookie.payload.iat > 0
    /\ link # None
    /\ verify_verification_token(link, now) # None

\* a token magic-link login must turn away, and a token whose email has no row
Unusable(tok, t) ==
    \/ ~IsJwt(tok)
    \/ tok.sig # jwt_secret
    \/ Expired(tok, t)
    \/ ~HasPurposeTag(tok)
NoSuchUser(tok) ==
    /\ IsJwt(tok)
    /\ "email" \in DOMAIN tok.payload
    /\ \A i \in 1..Len(users) : users[i].email # tok.payload.email

\* C8: magic-link login with a token that is malformed, wrongly signed,
\* expired or of the wrong purpose, or whose email belongs to no user,
\* answers with a redirect to the error page and not with an error status;
\* it creates no user, grants nothing and sets no cookie.
C8_MagicLoginFailsSoft ==
    [][\A tok \in Presentable :
         (MagicLogin(tok) /\ (Unusable(tok, now) \/ NoSuchUser(tok)))
         => /\ resp'.status = 307
            /\ resp'.detail = ErrorPage
            /\ ~resp'.set_cookie
            /\ UNCHANGED <<users, grants, codes, consents, cookie, link>>]_vars

\* a good time-boxed token for an email without a user row was presented
C8_Witness ==
    /\ resp.op = "magic_login"
    /\ resp.tok = link
    /\ ~Unusable(link, now)
    /\ NoSuchUser(link)
    /\ resp.status = 307
    /\ resp.detail = ErrorPage


\* the rows of the invitation table that carry the code
RowsOf(code) == {i \in 1..Len(codes) : codes[i].code = code}
Unknown(code) == RowsOf(code) = {}
Inactive(code) == \E i \in RowsOf(code) : ~codes[i].is_active
ExpiredCode(code, t) ==
    \E i \in RowsOf(code) : codes[i].expires_at # None /\ codes[i].expires_at[1] < t
Exhausted(code) ==
    \E i \in RowsOf(code) :
        codes[i].max_uses # None /\ codes[i].current_uses >= codes[i].max_uses[1]
SignedIn(authorization) ==
    /\ authorization # None
    /\ SignedHere(TokenOf(authorization))
    /\ ~Expired(TokenOf(authorization), now)
    /\ \E i \in 1..Len(users) : users[i].email = TokenOf(authorization).payload.email

\* C9: join-family by a signed-in user with an invitation code that is
\* unknown, inactive, expired or exhausted is answered 400; no grant is
\* written, no use is counted and no email token is made.
C9_BadCodeRefused ==
    [][\A a \in Browser, c \in TriedCodes :
         (/\ JoinFamily(a, c)
          /\ SignedIn(a)
          /\ (Unknown(c) \/ Inactive(c) \/ ExpiredCode(c, now) \/ Exhausted(c)))
         => /\ resp'.status = 400
            /\ UNCHANGED <<grants, codes, link>>]_vars


\* lowercase(trim(N)), and what create-family must leave behind for caller a
Normalised(requested) == Lower(Strip(requested))
Creator(a) == CHOOSE i \in 1..Len(users) : users[i].email = TokenOf(a).payload.email
Suffix(s, n) == SubSeq(s, n + 1, Len(s))
Created(a, requested) ==
    LET family == Normalised(requested)
        returned == resp'.body.invitation_code
    IN
    /\ resp'.status = 200
    /\ SubSeq(returned, 1, Len(family)) = family
    /\ Len(Suffix(returned, Len(family))) = 8
    /\ SeqRange(Suffix(returned, Len(family))) \subseteq CodeChars
    /\ \E i \in 1..Len(codes') :
            /\ codes'[i].code = returned
            /\ codes'[i].family_name = family
            /\ codes'[i].is_active
    /\ \E i \in 1..Len(grants') :
            /\ grants'[i].user_id = Creator(a)
            /\ grants'[i].family_name = family
            /\ grants'[i].is_active
            /\ grants'[i].granted_by = <<"family_creator">>
    /\ \E i \in 1..Len(FamiliesIn(grants', Creator(a))) :
            FamiliesIn(grants', Creator(a))[i] = family

C11_EmailFailureDoesNotAbort ==
    [][\A a \in Browser, f \in FamilyInputs, r \in RandomParts, o \in SesOutcomes \ {"sent"} :
         (/\ CreateFamily(a, f, r, send_family_magic_link(o).success)
          /\ SignedIn(a)
          /\ Len(Normalised(f)) >= 2
          /\ Unknown(Normalised(f) \o r))
         => /\ resp'.status = 200
            /\ resp'.body.email_sent = FALSE
            /\ Created(a, f)]_vars

\* a family was created although its welcome mail could not be sent
C11_Witness ==
    /\ resp.op = "create_family_code"
    /\ resp.status = 200
    /\ resp.body.email_sent = FALSE
    /\ \E i \in 1..Len(codes) :
            codes[i].code = resp.body.invitation_code /\ codes[i].created_by_user_id = 2
    /\ \E i \in 1..Len(grants) :
            /\ grants[i].user_id = 2
            /\ grants[i].family_name = resp.body.family_name
            /\ grants[i].granted_by = <<"family_creator">>


\* C12: a magic-link token is single-use: no token is accepted by magic-link
\* login (session cookie set, redirect to the family) more than once, not
\* even before its 30 minutes are over.
C12_MagicLinkSingleUse ==
    \A t \in BagToSet(logins.accepted) : CopiesIn(t, logins.accepted) = 1


\* C13: every family name in a family-access grant or in an invitation code
\* is on the configured allow-list.
C13_FamiliesAllowListed ==
    /\ \A i \in 1..Len(grants) : is_valid_family(grants[i].family_name)
    /\ \A i \in 1..Len(codes) : is_valid_family(codes[i].family_name)


\* the grants written by redeeming a code
RedeemedWith(code) == {k \in 1..Len(grants) : grants[k].granted_by = <<"invitation_", code>>}
Quiescent == \A t \in Threads : pc[t] \in {"idle", "True", "False"}

\* C14: redemption is one atomic unit: whenever no redemption call is in
\* progress, the current-use counter of every invitation code equals the
\* number of grants that were written by redeeming that code.
C14_CounterMatchesGrants ==
    Quiescent =>
        \A i \in 1..Len(codes) : codes[i].current_uses = Cardinality(RedeemedWith(codes[i].code))


\* the state string was made by signup-start for email e
StateMadeFor(state, e) ==
    \E n \in Nonces :
        state \in {get_authorization_url(signup, auth_state(e, n)), auth_state(e, n)}

\* C15: the OAuth callback fails, creates no user, stamps no verified or
\* last-login time and sets no session cookie whenever the identity exchange
\* fails, the provider says the email is not verified, or the provider's
\* email differs from the email in the state string.
C15_CallbackRefusals ==
    [][\A s \in CallbackStates, i \in IdpAnswers :
         (/\ OAuthCallback(s, i)
          /\ \/ i \in IdpFailures
             \/ (i \in IdInfos /\ ~i.email_verified)
             \/ (i \in IdInfos /\ \E e \in Emails : StateMadeFor(s, e) /\ i.email # e))
         => /\ resp'.status >= 400
            /\ ~resp'.set_cookie
            /\ users' = users
            /\ cookie' = cookie]_vars

\* the callback came back with the state of a signup for an address that
\* already has a row, the provider named another, verified address, and the
\* callback failed
C15_Witness ==
    /\ resp.op = "oauth_callback"
    /\ pending # None
    /\ resp.body.state = pending
    /\ resp.body.idp \in IdInfos
    /\ resp.body.idp.email_verified
    /\ \E e \in Emails : StateMadeFor(pending, e) /\ resp.body.idp.email # e
    /\ resp.status = 500
    /\ Len(users) = 1
    /\ users[1].verified_at = None


\* C16: the email-verification journey answers an invalid, expired or
\* wrong-purpose token with 400 or 401 and a good token whose email has no
\* user row with 404; neither is answered with 500.
C16_VerifyEmailClientErrors ==
    resp.op = "verify_email" =>
        /\ Unusable(resp.tok, now) => resp.status \in {400, 401}
        /\ (~Unusable(resp.tok, now) /\ NoSuchUser(resp.tok)) => resp.status = 404


\* why a token must fail at time t; tagged says whether the verifier expects
\* the purpose tag (time-boxed verifier) or its absence (session verifier)
Cause(tok, t, tagged) ==
    IF ~IsJwt(tok) \/ ~SignedHere(tok) THEN "TokenInvalid"
    ELSE IF Expired(tok, t) THEN "TokenExpired"
    ELSE IF HasPurposeTag(tok) # tagged THEN "TokenPurposeMismatch"
    ELSE "none"

\* C17: a verification that must fail fails, and what the verifier returns
\* tells the three causes apart: a bad signature or malformed token, an
\* expiry in the past, and a purpose tag that is not the expected one lead to
\* three different outcomes.
C17_CausesDistinguished ==
    \A a, b \in Presentable :
        /\ (Cause(a, now, FALSE) # "none" /\ Cause(b, now, FALSE) # "none"
                /\ Cause(a, now, FALSE) # Cause(b, now, FALSE))
           => verify_jwt_token(a, now) # verify_jwt_token(b, now)
        /\ (Cause(a, now, TRUE) # "none" /\ Cause(b, now, TRUE) # "none"
                /\ Cause(a, now, TRUE) # Cause(b, now, TRUE))
           => verify_verification_token(a, now) # verify_verification_token(b, now)


\* C18: consent capture by an authenticated user appends, for a family on the
\* allow-list, exactly one consent row and leaves the rows before it as they
\* were; for a family outside the allow-list it answers 400 and appends
\* nothing; either way it issues no token and changes no user, grant or code.
C18_ConsentAppendsOnly ==
    [][\A a \in JourneyCookies, f \in ConsentFamilies, c \in ConsentChoices :
         (Consent(a, f, c[1], c[2]) /\ SignedIn(a))
         => /\ IF f \in SeqRange(get_valid_families)
               THEN /\ resp'.status = 200
                    /\ Len(consents') = Len(consents) + 1
                    /\ SubSeq(consents', 1, Len(consents)) = consents
                    /\ consents'[Len(consents')].user_id = Creator(a)
                    /\ consents'[Len(consents')].family_name = f
                    /\ consents'[Len(consents')].marketing_consent = c[1]
                    /\ consents'[Len(consents')].terms_accepted = c[2]
               ELSE /\ resp'.status = 400
                    /\ consents' = consents
            /\ ~resp'.set_cookie
            /\ UNCHANGED <<users, grants, codes, cookie, link>>]_vars

\* a second, different consent was recorded for the same user and family
C18_Witness ==
    /\ resp.op = "record_consent"
    /\ resp.status = 200
    /\ Len(consents) = 2
    /\ consents[1].family_name = consents[2].family_name
    /\ consents[1].user_id = consents[2].user_id
    /\ consents[1].marketing_consent # consents[2].marketing_consent

\* C19: /me answers a signed-in user with the families of the user's active
\* grant rows as they are when the request is made, whatever family list the
\* presented session token carries: a grant written after the token was
\* issued is listed, and a family named only in the token is not.
C19_MeReadsGrants ==
    [][\A a \in Authorizations :
        (Me(a) /\ SignedIn(a))
        => /\ resp'.status = 200
           /\ resp'.body.id = Creator(a)
           /\ SeqRange(resp'.body.families) = ActiveFamilies(Creator(a))]_vars
C19_Witness ==
    /\ resp.op = "get_current_user_info"
    /\ resp.status = 200
    /\ resp.tok.payload.families = <<north>>
    /\ resp.body.families = <<bull>>

\* C20: exchange_code_for_tokens returns a failure result without an identity
\* when the exchange with the provider fails, when the id token is rejected,
\* or when the verified id token lacks the sub, email or name claim; a result
\* with success set always carries a subject id, an email and a display name.
RequiredClaims == {"sub", "email", "name"}
Omits(idp) == "fail" \notin DOMAIN idp /\ ~(RequiredClaims \subseteq DOMAIN idp)
C20_ExchangeNeedsAllClaims ==
    resp.op = "exchange_code_for_tokens" =>
        LET result == resp.body.result
            idp == resp.body.idp
        IN
        /\ (idp \in IdpFailures \/ Omits(idp))
             => (~result.success /\ "user_info" \notin DOMAIN result)
        /\ result.success
             => /\ result.user_info.google_id # None
                /\ result.user_info.email # None
                /\ result.user_info.name # None

\* C21: create-family, join-family, consent capture and /me, called without
\* a validly signed, unexpired session token in the authorization cookie (no
\* cookie, an expired token, or a token of the time-boxed kind), answer 401
\* and leave users, grants, invitation codes and consent records unchanged.
ValidSession(authorization) ==
    /\ authorization # None
    /\ SignedHere(TokenOf(authorization))
    /\ ~Expired(TokenOf(authorization), now)
    /\ ~HasPurposeTag(TokenOf(authorization))
C21_AuthenticatedOnly ==
    [][\A a \in JourneyCookies :
        (/\ ~ValidSession(a)
         /\ \/ Me(a)
            \/ Consent(a, bull, TRUE, TRUE)
            \/ CreateFamily(a, JourneyFamily, OneRandomPart, TRUE)
            \/ \E c \in TriedCodes : JoinFamily(a, c))
        => /\ resp'.status = 401
           /\ UNCHANGED <<users, grants, codes, consents>>]_vars

\* C22: a session token issued at time t by a login journey authenticates a
\* request at every time before t + 24 hours and at no time after it; a
\* time-boxed token issued at time t is accepted at every time before
\* t + 30 minutes and at no time after it.
Authenticates(ok) == IF ok THEN resp'.status = 200 ELSE resp'.status = 401
Accepted(ok) ==
    IF ok THEN resp'.set_cookie /\ resp'.detail # ErrorPage
    ELSE ~resp'.set_cookie /\ resp'.detail = ErrorPage
C22_ExpiryPolicy ==
    [][\A p \in logins.issued :
        /\ (~HasPurposeTag(p[1]) /\ Me(<<"Bearer ", p[1]>>))
            => /\ now < p[2] + Hours(SessionHours) => Authenticates(TRUE)
               /\ now > p[2] + Hours(SessionHours) => Authenticates(FALSE)
        /\ (HasPurposeTag(p[1]) /\ MagicLogin(p[1]))
            => /\ now < p[2] + Minutes(VerificationMinutes) => Accepted(TRUE)
               /\ now > p[2] + Minutes(VerificationMinutes) => Accepted(FALSE)]_vars

\* C22, amended: with s the time of issue cut to whole seconds, a session
\* token authenticates at every time before s + 24 hours and at no time from
\* s + 24 hours on, and a time-boxed token is accepted at every time before
\* s + 30 minutes and at no time from s + 30 minutes on.
WholeSeconds(t) == NumericDate(t) * TicksPerSecond
C22_ExpiryPolicyWholeSeconds ==
    [][\A p \in logins.issued :
        /\ (~HasPurposeTag(p[1]) /\ Me(<<"Bearer ", p[1]>>))
            => Authenticates(now < WholeSeconds(p[2]) + Hours(SessionHours))
        /\ (HasPurposeTag(p[1]) /\ MagicLogin(p[1]))
            => Accepted(now < WholeSeconds(p[2]) + Minutes(VerificationMinutes))]_vars
\* a session token issued between two whole seconds was turned away less
\* than 24 hours after its issue, 24 hours after the whole second before it
C22_Witness ==
    /\ resp.op = "get_current_user_info"
    /\ resp.status = 401
    /\ \E p \in logins.issued :
            /\ p[1] = resp.tok
            /\ now < p[2] + Hours(SessionHours)
            /\ now >= WholeSeconds(p[2]) + Hours(SessionHours)

\* C23: no two user rows share an email or a subject id, user rows are never
\* deleted, and an OAuth callback that comes back with the state of a signup
\* for an email that already has a user row, with a verified identity for
\* that email, reuses the row: it stamps it, signs its user in, and adds no
\* row.
UniqueUsers(table) ==
    \A i, j \in 1..Len(table) :
        i # j => (table[i].email # table[j].email /\ table[i].google_id # table[j].google_id)
C23_CallbackReusesRow ==
    [][/\ UniqueUsers(users')
       /\ Len(users') >= Len(users)
       /\ \A k \in 1..Len(users) : users'[k].id = users[k].id /\ users'[k].email = users[k].email
       /\ \A s \in CallbackStates, i \in IdInfos :
            (/\ OAuthCallback(s, i)
             /\ i.email_verified
             /\ StateMadeFor(s, i.email)
             /\ get_user_by_email(i.email) # None)
            => /\ Len(users') = Len(users)
               /\ users'[get_user_by_email(i.email).id]
                    = Stamped(get_user_by_email(i.email), now)
               /\ resp'.set_cookie
               /\ cookie'.payload.user_id = Some(get_user_by_email(i.email).id)]_vars

\* C24: the family of an invitation code never changes after the code was
\* created: create-family, create_invitation_code, join-family and
\* use_invitation_code (with the lookup they make) leave every existing row
\* of the codes table with its code and its family.
C24_CodeFamilyImmutable ==
    [][/\ Len(codes') >= Len(codes)
       /\ \A k \in 1..Len(codes) :
            /\ codes'[k].code = codes[k].code
            /\ codes'[k].family_name = codes[k].family_name]_vars
\* a code was redeemed by a user who held another family before, and a
\* second code for another family was created next to it
C24_Witness ==
    /\ Len(codes) = 2
    /\ codes[1].family_name # codes[2].family_name
    /\ \E k \in 1..2, u \in 1..Len(users) :
            /\ codes[k].current_uses >= 1
            /\ Len(get_user_families(u)) = 2
            /\ get_user_families(u)[1] # codes[k].family_name
            /\ get_user_families(u)[2] = codes[k].family_name

\* C25: when the signing secret is not set (or is empty) in the environment,
\* the construction of the token service raises at the start of the process:
\* no instance exists, no request is served, no token is issued or verified,
\* and whenever a token is issued or verified the signing key is present.
C25_NoServiceWithoutSecret ==
    /\ Falsy(service.environ.JWT_SECRET) =>
            /\ ~Constructed
            /\ service.google_auth # NotImported => service.google_auth.state = "ValueError"
            /\ Held = {}
            /\ resp.op \in {"start", "GoogleAuthService"}
    /\ \A tok \in Held : ~Falsy(tok.sig)
    /\ resp.op \notin {"start", "GoogleAuthService"} => (Constructed /\ ~Falsy(jwt_secret))
\* the process was started without the signing secret and the construction
\* of the token service raised
C25_Witness ==
    /\ service.environ.JWT_SECRET = NotSet
    /\ resp.op = "GoogleAuthService"
    /\ service.google_auth.state = "ValueError"
    /\ service.google_auth.args = "JWT secret not configured"

\* C26: the detail of every error response of the OAuth callback and of
\* email verification is one of the handlers' own fixed messages, whatever
\* exception was raised inside the handler; the text of an internal exception
\* is never the detail.
FixedDetails ==
    {"400: OAuth exchange failed", "400: Google email not verified",
     "400: Invalid signup state", "400: Email mismatch",
     "400: Invalid or expired verification token", "404: User not found"}
C26_NoRawExceptionDetail ==
    (resp.op \in {"oauth_callback", "verify_email"} /\ resp.status >= 400)
        => resp.detail \in FixedDetails

\* C27: use_invitation_code returns True only if the code exists and is
\* active, its expiry (when set) is not before the current time, and, when a
\* max-use count m >= 0 is set (0 included), the current-use counter is below
\* m; so the counter of a code with max-use count m never exceeds m.
C27_RedeemOnlyBelowLimit ==
    [][/\ \A c \in TriedCodes, u \in UserIds :
            (UseInvitationCode(c, u) /\ resp'.detail = "True")
            => ~(Unknown(c) \/ Inactive(c) \/ ExpiredCode(c, now) \/ Exhausted(c))
       /\ \A k \in 1..Len(codes') :
            codes'[k].max_uses # None => codes'[k].current_uses <= Val(codes'[k].max_uses)]_vars

\* C28: a successful redemption of code c by user u adds exactly one active
\* grant row, for (u, family of c), and raises the current-use counter of c
\* by exactly 1; it changes no other code, no earlier grant row, and none of
\* c's family, expiry, max-use count and active flag.
C28_RedemptionEffect ==
    [][\A t \in Threads :
        /\ RedeemGrant(t)
            => /\ Len(grants') = Len(grants) + 1
               /\ SubSeq(grants', 1, Len(grants)) = grants
               /\ grants'[Len(grants')].user_id = snap[t].user_id
               /\ grants'[Len(grants')].family_name = codes[snap[t].at].family_name
               /\ grants'[Len(grants')].is_active
               /\ codes' = codes
        /\ RedeemIncrement(t)
            => /\ codes' = [codes EXCEPT ![snap[t].at].current_uses = @ + 1]
               /\ grants' = grants]_vars

\* C29: the session token that the OAuth callback, magic-link login or
\* email verification sets carries a family list whose set of names is the
\* set of families of the user's active grants in the store when the
\* response is produced, the family granted by the journey included.
C29_TokenCarriesGrantedFamilies ==
    (resp.op \in {"oauth_callback", "magic_login", "verify_email"} /\ resp.set_cookie)
        => SeqRange(cookie.payload.families) = ActiveFamilies(Val(cookie.payload.user_id))

\* C30: magic-link login adds a grant row for the family in the token only
\* when the user holds no active grant for it: however many logins one user
\* makes for one family, one after another or at the same time, the grants
\* table holds at most one row for that (user, family) pair, and exactly one
\* once a login has been answered.
GrantRows(user_id, family_name) ==
    {k \in 1..Len(grants) :
        grants[k].user_id = user_id /\ grants[k].family_name = family_name}
C30_OneGrantPerMagicFamily ==
    \A f \in GrantFamilies :
        /\ Cardinality(GrantRows(1, f)) <= 1
        /\ (\E t \in Threads : pc[t] = "answered" /\ snap[t].payload.family_name = f)
            => Cardinality(GrantRows(1, f)) = 1

\* C31: the time-boxed verifier accepts only tokens that carry the purpose
\* tag email_verification; a validly signed, unexpired session token handed
\* to /magic/ or /verify/ is refused by the verifier, the journey fails, and
\* no user row, grant, code, consent or cookie changes.
Unexpired(tok, t) == IsJwt(tok) /\ tok.payload.exp * TicksPerSecond > t
C31_OnlyTaggedTokensVerify ==
    [][/\ \A tok \in Presentable :
            verify_verification_token(tok, now) # None => HasPurposeTag(tok)
       /\ \A tok \in Held :
            (/\ SignedHere(tok) /\ Unexpired(tok, now) /\ ~HasPurposeTag(tok)
             /\ MagicLogin(tok) \/ VerifyEmail(tok))
            => /\ verify_verification_token(tok, now) = None
               /\ resp'.status \in {307, 500}
               /\ resp'.status = 307 => resp'.detail = ErrorPage
               /\ ~resp'.set_cookie
               /\ UNCHANGED <<users, grants, codes, consents, cookie, link>>]_vars

\* alice's live session token was put into a magic link and turned away
C31_Witness ==
    /\ resp.op = "magic_login"
    /\ cookie # None
    /\ resp.tok = cookie
    /\ SignedHere(cookie)
    /\ Unexpired(cookie, now)
    /\ get_user_by_email(cookie.payload.email) # None
    /\ resp.detail = ErrorPage
    /\ grants = <<>>

\* the requested name without the blanks around it, in lower case
NonBlank(f) == {k \in 1..Len(f) : f[k] # " "}
FirstNonBlank(f) == CHOOSE k \in NonBlank(f) : \A j \in NonBlank(f) : k <= j
LastNonBlank(f) == CHOOSE k \in NonBlank(f) : \A j \in NonBlank(f) : k >= j
TrimmedLower(f) ==
    IF NonBlank(f) = {} THEN <<>>
    ELSE [k \in 1..(LastNonBlank(f) - FirstNonBlank(f) + 1) |->
            LET c == f[FirstNonBlank(f) + k - 1] IN
            IF c \in DOMAIN LowerCaseOf THEN LowerCaseOf[c] ELSE c]

\* C32: create-family answers a name that is shorter than 2 characters once
\* trimmed and lowercased with a client error (400 for a signed-in caller,
\* 401 otherwise) and creates no code, grant or link; when it succeeds, the one
\* new invitation code, the one new grant of the caller and the answer all
\* carry the trimmed, lowercased name.
C32_CreateFamilyNormalises ==
    [][\A a \in Browser, f \in FamilyInputs, r \in RandomParts, sent \in BOOLEAN :
        CreateFamily(a, f, r, sent) =>
            /\ Len(TrimmedLower(f)) < 2 =>
                /\ resp'.status = IF get_current_user(a, now) = None THEN 401 ELSE 400
                /\ UNCHANGED <<users, grants, codes, link>>
            /\ resp'.status = 200 =>
                /\ Len(TrimmedLower(f)) >= 2
                /\ resp'.body.family_name = TrimmedLower(f)
                /\ Len(codes') = Len(codes) + 1
                /\ SubSeq(codes', 1, Len(codes)) = codes
                /\ codes'[Len(codes')].family_name = TrimmedLower(f)
                /\ Len(grants') = Len(grants) + 1
                /\ SubSeq(grants', 1, Len(grants)) = grants
                /\ grants'[Len(grants')].family_name = TrimmedLower(f)
                /\ grants'[Len(grants')].user_id
                        = get_user_by_email(get_current_user(a, now).email).id]_vars

\* " Sm " was asked for and the family sm was created; " X " was refused
C32_Witness ==
    /\ resp.op = "create_family_code"
    /\ resp.status = 200
    /\ resp.body.family_name = <<"s", "m">>
    /\ codes # <<>>
    /\ codes[Len(codes)].family_name = <<"s", "m">>
    /\ grants[Len(grants)].family_name = <<"s", "m">>

\* C33: after signup-start the state parameter of the authorization URL is
\* exactly signup:<email>:<nonce>, the value the response returns as state,
\* and no table has been written.
C33_UrlStateIsReturnedState ==
    resp.op = "start_signup" =>
        /\ \E n \in Nonces : resp.body.state = signup \o colon \o resp.body.email \o colon \o n
        /\ resp.body.auth_url = resp.body.state
        /\ pending = resp.body.state
        /\ users = <<>> /\ grants = <<>> /\ codes = <<>> /\ consents = <<>>

\* family f has an active grant of a user other than u
HeldByOthers(g, f, u) ==
    \E i \in 1..Len(g) : g[i].family_name = f /\ g[i].user_id # u /\ g[i].is_active
\* the step appended an active grant of family f for user u
Gains(u, f) ==
    \E i \in (Len(grants) + 1)..Len(grants') :
        grants'[i].user_id = u /\ grants'[i].family_name = f /\ grants'[i].is_active

\* C34: a user gains an active grant for a family that other users already
\* hold only in a step that redeems an invitation code or accepts a
\* time-boxed token; create-family never adds such a grant.
C34_FamilyIsolation ==
    [][\A u \in UserIds, i \in 1..Len(grants') :
        (HeldByOthers(grants, grants'[i].family_name, u) /\ Gains(u, grants'[i].family_name))
        => resp'.op \in {"join_family_with_code", "use_invitation_code",
                         "magic_login", "verify_email"}]_vars

\* the user row with this email exists and is soft-deactivated
Inactive_user(email) ==
    \E i \in 1..Len(users) : users[i].email = email /\ ~users[i].is_active
NothingIssued ==
    /\ ~resp'.set_cookie
    /\ UNCHANGED <<cookie, grants>>

\* C35: a journey that would end in a session (OAuth-callback, magic-link
\* login, email-verification) sets no cookie, issues no token and writes no
\* grant when the user it is made for has is_active false.
C35_InactiveUserGetsNoSession ==
    [][/\ \A tok \in Held :
            (/\ MagicLogin(tok) \/ VerifyEmail(tok)
             /\ "email" \in DOMAIN tok.payload
             /\ Inactive_user(tok.payload.email))
            => NothingIssued
       /\ \A s \in CallbackStates, i \in IdInfos :
            (OAuthCallback(s, i) /\ Inactive_user(i.email)) => NothingIssued]_vars

\* the caller is signed in and holds an active grant for the family
HoldsGrant(a, f) ==
    LET user == get_current_user(a, now) IN
    /\ user # None
    /\ user.user_id # None
    /\ f \in SeqRange(get_user_families(Val(user.user_id)))

\* C36: consent capture by a signed-in user for a family she holds an active
\* grant for is accepted: it answers 200 and appends her consent row.
C36_GrantHoldersCanConsent ==
    [][\A a \in Browser, f \in ConsentFamilies, c \in ConsentChoices :
        (Consent(a, f, c[1], c[2]) /\ HoldsGrant(a, f))
        => /\ resp'.status = 200
           /\ Len(consents') = Len(consents) + 1
           /\ consents'[Len(consents')].family_name = f]_vars

\* the session token names, by id, email and subject, one row of the table
NamesRowOf(token, table) ==
    \E i \in 1..Len(table) :
        /\ token.payload.user_id = Some(table[i].id)
        /\ token.payload.email = table[i].email
        /\ token.payload.sub = Str(table[i].id)

\* C37: a journey that sets the session cookie issues a token whose id and
\* email are those of one user row; magic-link login and email-verification
\* take that row to be the one with the time-boxed token's email, whatever
\* user id the token carries, and set no cookie when no row has that email.
C37_SessionNamesOneUser ==
    [][/\ \A tok \in Held :
            (MagicLogin(tok) \/ VerifyEmail(tok)) =>
                /\ get_user_by_email(tok.payload.email) = None =>
                        ~resp'.set_cookie /\ UNCHANGED <<cookie, users, grants>>
                /\ resp'.set_cookie =>
                        /\ NamesRowOf(cookie', <<get_user_by_email(tok.payload.email)>>)
                        /\ NamesRowOf(cookie', users')
       /\ \A s \in CallbackStates, e \in Emails :
            (OAuthCallback(s, VerifiedIdInfo(e)) /\ resp'.set_cookie)
            => NamesRowOf(cookie', users')]_vars

\* a magic link that carries user id 2 was accepted for alice, whose id is 1
C37_Witness ==
    /\ resp.op = "magic_login"
    /\ resp.set_cookie
    /\ resp.tok.payload.email = alice
    /\ resp.tok.payload.user_id = Some(2)
    /\ cookie.payload.user_id = Some(1)
    /\ cookie.payload.email = alice

\* C38: a message is sent with a client that was built from the
\* configuration get_ses_config returns at that send.
C38_ClientMatchesConfig ==
    (resp.op = "send_family_magic_link" /\ resp.detail = "sent")
        => resp.body.client = boto3_client(resp.body.config)

====
